---------------------------- MODULE Spec2Model ----------------------------
(***************************************************************************)
(* Model of the render-cache-and-tiling core of roblox-katex-renderer.     *)
(*                                                                         *)
(* The repository holds several alternative server programs, each with its *)
(* own copy of the cache and of the tiler.  A run of the cache            *)
(* specification executes one of the three LruCache classes (the variable  *)
(* impl names which); a run of the tiler specification applies the tilers  *)
(* to one rasterized image.                                                *)
(***************************************************************************)
EXTENDS Integers, Sequences, FiniteSets, TLC

VARIABLES
    impl,          \* which LruCache class this run executes
    capacity,      \* this.capacity / this.Capacity
    map,           \* this.map / this.Cache: the JS Map, in insertion order
    now,           \* the clock reading of the latest call (Date.now())
    last,          \* the latest call: operation, key, returned value
    lastSet,       \* history: the value of the latest set of each key
    useSeq,        \* history: keys by their latest use, least recent first
    phase,         \* history: how far the run follows the fill-read-insert scenario
    image,         \* the rasterizer's output: width, height, raw RGBA bytes
    tiled,         \* the latest tiler call: function, edge, result
    reqs,          \* the requests: handler position, pipeline call, response
    stub           \* the rasterizer's behaviour at each pixel density

vars == <<impl, capacity, map, now, last, lastSet, useSeq, phase, image, tiled,
         reqs, stub>>

cacheVars == <<impl, capacity, map, now, last, lastSet, useSeq, phase>>

tilerVars == <<image, tiled>>

serverVars == <<reqs, stub>>

(***************************************************************************)
(* Bounds of the model.                                                    *)
(***************************************************************************)
\* Latest clock reading explored.
MaxTime == 2

\* The time-to-live given to set, in clock ticks (CACHE_TTL is 3600 s).
Ttl == 1

Keys == {"k1", "k2", "k3"}

Values == {"v1", "v2"}

\* The capacities a cache is constructed with (500 and 800 in the source):
\* small enough that a full cache can always be offered a key it does not hold.
Capacities == 0..(Cardinality(Keys) - 1)

TTLs == {Ttl}

\* Clock ticks that may pass between two calls.
Elapsed == {0, 1, 2}

\* JS null / undefined, as returned by a miss.
Null == "null"

Impls == {"part_000", "part_002", "server"}

(***************************************************************************)
(* The JS Map: a sequence of entries in insertion order.                   *)
(***************************************************************************)
Min(a, b) == IF a < b THEN a ELSE b

RECURSIVE SeqWithout(_, _)
SeqWithout(s, k) ==
    IF s = <<>> THEN <<>>
    ELSE IF Head(s) = k THEN SeqWithout(Tail(s), k)
    ELSE <<Head(s)>> \o SeqWithout(Tail(s), k)

MapKeys(m) == {m[i].key : i \in 1..Len(m)}

MapHas(m, k) == k \in MapKeys(m)

MapEntry(m, k) == m[CHOOSE i \in 1..Len(m) : m[i].key = k]

\* Map.prototype.delete: removes the entry, the others keep their order.
RECURSIVE MapDelete(_, _)
MapDelete(m, k) ==
    IF m = <<>> THEN <<>>
    ELSE IF Head(m).key = k THEN Tail(m)
    ELSE <<Head(m)>> \o MapDelete(Tail(m), k)

\* Map.prototype.set: a resident key keeps its place, a new key goes last.
MapSet(m, k, e) ==
    IF MapHas(m, k)
    THEN [i \in 1..Len(m) |-> IF m[i].key = k THEN e ELSE m[i]]
    ELSE Append(m, e)

KeyOrder(m) == [i \in 1..Len(m) |-> m[i].key]

\* keys().next().value of a non-empty Map: the key inserted earliest.
FirstKey(m) == m[1].key

(***************************************************************************)
(* src/unnamed/part_000: LruCache with a per-entry time-to-live.           *)
(* Every operation is a pure function of the Map, the arguments and the    *)
(* clock reading t, and yields the new Map and the returned value.         *)
(***************************************************************************)
\* A _touch that writes the entry back without deleting it first.
LruCache_touch_inPlace(m, key, entry) == MapSet(m, key, entry)

LruCache_touch(m, key, entry) == MapSet(MapDelete(m, key), key, entry)

\* A get without the TTL check.
LruCache_get_noExpiry(m, key, t) ==
    IF ~MapHas(m, key) THEN [map |-> m, ret |-> Null]
    ELSE LET entry == MapEntry(m, key)
         IN  [map |-> LruCache_touch(m, key, entry), ret |-> entry.value]

\* A get whose hit deletes the entry and does not write it back.
LruCache_get_dropOnHit(m, key, t) ==
    IF ~MapHas(m, key) THEN [map |-> m, ret |-> Null]
    ELSE LET entry == MapEntry(m, key)
         IN  IF entry.ts + entry.ttl < t
             THEN [map |-> MapDelete(m, key), ret |-> Null]
             ELSE [map |-> MapDelete(m, key), ret |-> entry.value]

\* A get that reports an expired entry as absent but leaves it in the Map.
LruCache_get_keepExpired(m, key, t) ==
    IF ~MapHas(m, key) THEN [map |-> m, ret |-> Null]
    ELSE LET entry == MapEntry(m, key)
         IN  IF entry.ts + entry.ttl < t
             THEN [map |-> m, ret |-> Null]
             ELSE [map |-> LruCache_touch(m, key, entry), ret |-> entry.value]

\* A get whose miss deletes the first key of the Map.
LruCache_get_evictOnMiss(m, key, t) ==
    IF ~MapHas(m, key)
    THEN [map |-> IF m = <<>> THEN m ELSE MapDelete(m, FirstKey(m)), ret |-> Null]
    ELSE LET entry == MapEntry(m, key)
         IN  IF entry.ts + entry.ttl < t
             THEN [map |-> MapDelete(m, key), ret |-> Null]
             ELSE [map |-> LruCache_touch(m, key, entry), ret |-> entry.value]

\* A get whose hit writes the entry back with the time of the get.
LruCache_get_refresh(m, key, t) ==
    IF ~MapHas(m, key) THEN [map |-> m, ret |-> Null]
    ELSE LET entry == MapEntry(m, key)
         IN  IF entry.ts + entry.ttl < t
             THEN [map |-> MapDelete(m, key), ret |-> Null]
             ELSE [map |-> LruCache_touch(m, key, [entry EXCEPT !.ts = t]),
                   ret |-> entry.value]

LruCache_get(m, key, t) ==
    IF ~MapHas(m, key) THEN [map |-> m, ret |-> Null]
    ELSE LET entry == MapEntry(m, key)
         IN  IF entry.ts + entry.ttl < t
             THEN [map |-> MapDelete(m, key), ret |-> Null]
             ELSE [map |-> LruCache_touch(m, key, entry), ret |-> entry.value]

\* while (this.map.size > this.capacity) delete the first key.
RECURSIVE EvictOldest(_, _)
EvictOldest(m, cap) ==
    IF Len(m) > cap THEN EvictOldest(MapDelete(m, FirstKey(m)), cap) ELSE m

\* A set that keeps a resident entry instead of replacing it.
LruCache_set_keepOld(m, cap, key, value, ttl, t) ==
    EvictOldest(IF MapHas(m, key) THEN m
                ELSE MapSet(m, key, [key |-> key, value |-> value, ts |-> t, ttl |-> ttl]),
                cap)

\* A set whose eviction loop stops one entry too late.
LruCache_set_offByOne(m, cap, key, value, ttl, t) ==
    EvictOldest(MapSet(IF MapHas(m, key) THEN MapDelete(m, key) ELSE m, key,
                       [key |-> key, value |-> value, ts |-> t, ttl |-> ttl]),
                cap + 1)

\* A set that writes a resident key where it stands in the Map (a Map.set
\* without the delete before it).
LruCache_set_inPlace(m, cap, key, value, ttl, t) ==
    EvictOldest(IF MapHas(m, key)
                THEN [i \in 1..Len(m) |->
                         IF m[i].key = key
                         THEN [key |-> key, value |-> value, ts |-> t, ttl |-> ttl]
                         ELSE m[i]]
                ELSE MapSet(m, key, [key |-> key, value |-> value, ts |-> t, ttl |-> ttl]),
                cap)

\* A set that first drops the entries that have expired.
LruCache_set_purgeExpired(m, cap, key, value, ttl, t) ==
    LET live == SelectSeq(m, LAMBDA e : ~(e.ts + e.ttl < t))
    IN  EvictOldest(MapSet(IF MapHas(live, key) THEN MapDelete(live, key) ELSE live, key,
                           [key |-> key, value |-> value, ts |-> t, ttl |-> ttl]),
                    cap)

LruCache_set(m, cap, key, value, ttl, t) ==
    EvictOldest(MapSet(IF MapHas(m, key) THEN MapDelete(m, key) ELSE m, key,
                       [key |-> key, value |-> value, ts |-> t, ttl |-> ttl]),
                cap)

LruCache_delete(m, key) == MapDelete(m, key)

(***************************************************************************)
(* src/unnamed/part_002: LruCache without expiry (entries carry ts).       *)
(***************************************************************************)
P2_LruCache_get(m, key) ==
    IF ~MapHas(m, key) THEN [map |-> m, ret |-> Null]
    ELSE LET v == MapEntry(m, key)
         IN  [map |-> MapSet(MapDelete(m, key), key, v), ret |-> v.value]

P2_LruCache_set(m, cap, key, value, t) ==
    EvictOldest(MapSet(IF MapHas(m, key) THEN MapDelete(m, key) ELSE m, key,
                       [key |-> key, value |-> value, ts |-> t]),
                cap)

(***************************************************************************)
(* src/server.js: LruCache with Get / Set, no clock.                       *)
(***************************************************************************)
LruCache_Get(m, Key) ==
    IF ~MapHas(m, Key) THEN [map |-> m, ret |-> Null]
    ELSE LET Value == MapEntry(m, Key)
         IN  [map |-> MapSet(MapDelete(m, Key), Key, Value), ret |-> Value.value]

\* A Set that evicts only once the size exceeds the capacity.
LruCache_Set_lateEvict(m, cap, Key, Value) ==
    LET kept == IF MapHas(m, Key) THEN MapDelete(m, Key)
                ELSE IF Len(m) > cap /\ m # <<>> THEN MapDelete(m, FirstKey(m))
                ELSE m
    IN  MapSet(kept, Key, [key |-> Key, value |-> Value])

\* delete(keys().next().value) on an empty Map deletes nothing.
LruCache_Set(m, cap, Key, Value) ==
    LET kept == IF MapHas(m, Key) THEN MapDelete(m, Key)
                ELSE IF Len(m) >= cap /\ m # <<>> THEN MapDelete(m, FirstKey(m))
                ELSE m
    IN  MapSet(kept, Key, [key |-> Key, value |-> Value])

(***************************************************************************)
(* History of a run, kept beside the cache to state the claims.            *)
(***************************************************************************)
NoSet == [value |-> Null, at |-> 0, ttl |-> 0]

\* k was used: it becomes the most recent key of the use order.
Used(seq, k) == Append(SeqWithout(seq, k), k)

\* The call just made: what it was, what it returned, the keys it removed,
\* whether it repeats a get that has just hit the same key, and whether the
\* Map held its key before it.
Call(op, k, ret, before, after, prev) ==
    [op |-> op, key |-> k, ret |-> ret,
     removed |-> (MapKeys(before) \cup (IF op = "set" THEN {k} ELSE {})) \ MapKeys(after),
     repeat |-> (op = "get" /\ prev.op = "get" /\ prev.key = k /\ prev.ret # Null),
     resident |-> MapHas(before, k)]

\* The scenario of the LRU-order property: C distinct keys are set into an
\* empty cache ("filling", which also covers every run of distinct sets),
\* the first of them is read ("readFirst"), one more new key is set
\* ("setNext"); any other call leaves the scenario ("other").
PhaseAfterSet(ph, k, ls) ==
    IF ph = "filling" /\ ls[k] = NoSet THEN "filling"
    ELSE IF ph = "readFirst" /\ ls[k] = NoSet THEN "setNext"
    ELSE "other"

PhaseAfterGet(ph, k, ret, seq, cap) ==
    IF ph = "filling" /\ cap >= 1 /\ Len(seq) = cap /\ seq[1] = k /\ ret # Null
    THEN "readFirst"
    ELSE "other"

(***************************************************************************)
(* The cache specification.                                                *)
(***************************************************************************)
\* new LruCache(capacity) of the three classes: the capacity is stored as
\* given and the Map is empty; no capacity is turned down.
LruCache_constructor(Capacity) ==
    [threw |-> FALSE, capacity |-> Capacity, map |-> <<>>]

CacheInit ==
    /\ impl \in Impls
    /\ \E Capacity \in Capacities :
           LET cache == LruCache_constructor(Capacity)
           IN  /\ ~cache.threw
               /\ capacity = cache.capacity
               /\ map = cache.map
    /\ now = 0
    /\ last = [op |-> "new", key |-> Null, ret |-> Null, removed |-> {}, repeat |-> FALSE,
               resident |-> FALSE]
    /\ lastSet = [k \in Keys |-> NoSet]
    /\ useSeq = <<>>
    /\ phase = "filling"
    /\ image = [width |-> 0, height |-> 0, seed |-> 0]
    /\ tiled = [fn |-> "none"]
    /\ reqs = <<>>
    /\ stub = <<>>

\* part_000 Cache.get(key), dt ticks after the previous call.
Get000(k, dt) ==
    /\ impl = "part_000"
    /\ now + dt <= MaxTime
    /\ LET r == LruCache_get(map, k, now + dt)
       IN  /\ map' = r.map
           /\ last' = Call("get", k, r.ret, map, r.map, last)
           /\ useSeq' = IF r.ret # Null THEN Used(useSeq, k) ELSE useSeq
           /\ phase' = PhaseAfterGet(phase, k, r.ret, useSeq, capacity)
    /\ now' = now + dt
    /\ UNCHANGED <<impl, capacity, lastSet>>
    /\ UNCHANGED tilerVars
    /\ UNCHANGED serverVars

\* part_000 Cache.set(key, value, ttl), dt ticks after the previous call.
Set000(k, v, ttl, dt) ==
    /\ impl = "part_000"
    /\ now + dt <= MaxTime
    /\ LET m == LruCache_set(map, capacity, k, v, ttl, now + dt)
       IN  /\ map' = m
           /\ last' = Call("set", k, Null, map, m, last)
    /\ now' = now + dt
    /\ lastSet' = [lastSet EXCEPT ![k] = [value |-> v, at |-> now + dt, ttl |-> ttl]]
    /\ useSeq' = Used(useSeq, k)
    /\ phase' = PhaseAfterSet(phase, k, lastSet)
    /\ UNCHANGED <<impl, capacity>>
    /\ UNCHANGED tilerVars
    /\ UNCHANGED serverVars

\* part_000 Cache.delete(key).
Delete000(k) ==
    /\ impl = "part_000"
    /\ LET m == LruCache_delete(map, k)
       IN  /\ map' = m
           /\ last' = Call("delete", k, Null, map, m, last)
    /\ phase' = "other"
    /\ UNCHANGED <<impl, capacity, now, lastSet, useSeq>>
    /\ UNCHANGED tilerVars
    /\ UNCHANGED serverVars

\* part_002 Cache.get(key).
Get002(k) ==
    /\ impl = "part_002"
    /\ LET r == P2_LruCache_get(map, k)
       IN  /\ map' = r.map
           /\ last' = Call("get", k, r.ret, map, r.map, last)
           /\ useSeq' = IF r.ret # Null THEN Used(useSeq, k) ELSE useSeq
           /\ phase' = PhaseAfterGet(phase, k, r.ret, useSeq, capacity)
    /\ UNCHANGED <<impl, capacity, now, lastSet>>
    /\ UNCHANGED tilerVars
    /\ UNCHANGED serverVars

\* part_002 Cache.set(key, value), dt ticks after the previous call.
Set002(k, v, dt) ==
    /\ impl = "part_002"
    /\ now + dt <= MaxTime
    /\ LET m == P2_LruCache_set(map, capacity, k, v, now + dt)
       IN  /\ map' = m
           /\ last' = Call("set", k, Null, map, m, last)
    /\ now' = now + dt
    /\ lastSet' = [lastSet EXCEPT ![k] = [value |-> v, at |-> now + dt, ttl |-> 0]]
    /\ useSeq' = Used(useSeq, k)
    /\ phase' = PhaseAfterSet(phase, k, lastSet)
    /\ UNCHANGED <<impl, capacity>>
    /\ UNCHANGED tilerVars
    /\ UNCHANGED serverVars

\* server.js RenderCache.Get(Key).
GetSrv(k) ==
    /\ impl = "server"
    /\ LET r == LruCache_Get(map, k)
       IN  /\ map' = r.map
           /\ last' = Call("get", k, r.ret, map, r.map, last)
           /\ useSeq' = IF r.ret # Null THEN Used(useSeq, k) ELSE useSeq
           /\ phase' = PhaseAfterGet(phase, k, r.ret, useSeq, capacity)
    /\ UNCHANGED <<impl, capacity, now, lastSet>>
    /\ UNCHANGED tilerVars
    /\ UNCHANGED serverVars

\* server.js RenderCache.Set(Key, Value).
SetSrv(k, v) ==
    /\ impl = "server"
    /\ LET m == LruCache_Set(map, capacity, k, v)
       IN  /\ map' = m
           /\ last' = Call("set", k, Null, map, m, last)
    /\ lastSet' = [lastSet EXCEPT ![k] = [value |-> v, at |-> 0, ttl |-> 0]]
    /\ useSeq' = Used(useSeq, k)
    /\ phase' = PhaseAfterSet(phase, k, lastSet)
    /\ UNCHANGED <<impl, capacity, now>>
    /\ UNCHANGED tilerVars
    /\ UNCHANGED serverVars

CacheNext ==
    \/ \E k \in Keys, dt \in Elapsed : Get000(k, dt)
    \/ \E k \in Keys, v \in Values, ttl \in TTLs, dt \in Elapsed : Set000(k, v, ttl, dt)
    \/ \E k \in Keys : Delete000(k)
    \/ \E k \in Keys : Get002(k)
    \/ \E k \in Keys, v \in Values, dt \in Elapsed : Set002(k, v, dt)
    \/ \E k \in Keys : GetSrv(k)
    \/ \E k \in Keys, v \in Values : SetSrv(k, v)

SpecCache == CacheInit /\ [][CacheNext]_vars

(***************************************************************************)
(* The tilers.  An image is width x height pixels of BytesPerPixel bytes,  *)
(* row-major.  Each tiler is a function of the raw bytes, the dimensions   *)
(* and the tile edge; the edge is MAX_TILE / MaxTileSize = 1024 in the     *)
(* source, and the specification runs the same functions with the small    *)
(* edge TileEdge so that images of a few pixels span several tiles.        *)
(***************************************************************************)
\* Largest image width and height explored.
MaxDim == 5

\* The tile edge the specification runs the tilers with.
TileEdge == 2

MAX_TILE == 1024

BytesPerPixel == 4

\* The rasterizer's output for a width x height image: one of two byte
\* patterns in which neighbouring bytes differ.
RawBuffer(width, height, seed) ==
    [i \in 1..(width * height * BytesPerPixel) |->
        IF seed = 0 THEN (i - 1) % 256 ELSE 255 - ((i - 1) % 256)]

\* Math.ceil(a / b) for a >= 0, b >= 1.
CeilDiv(a, b) == (a + b - 1) \div b

\* for (v = from; v < limit; v += step): the values v takes.
RECURSIVE ForSteps(_, _, _)
ForSteps(from, limit, step) ==
    IF from < limit THEN <<from>> \o ForSteps(from + step, limit, step) ELSE <<>>

RECURSIVE Flatten(_)
Flatten(ss) == IF ss = <<>> THEN <<>> ELSE Head(ss) \o Flatten(Tail(ss))

\* Buffer.prototype.toString("base64"): 6-bit symbols 0..63, 64 for "=".
RECURSIVE ToBase64(_)
ToBase64(b) ==
    IF Len(b) = 0 THEN <<>>
    ELSE IF Len(b) = 1
    THEN <<b[1] \div 4, (b[1] % 4) * 16, 64, 64>>
    ELSE IF Len(b) = 2
    THEN <<b[1] \div 4, (b[1] % 4) * 16 + (b[2] \div 16), (b[2] % 16) * 4, 64>>
    ELSE <<b[1] \div 4, (b[1] % 4) * 16 + (b[2] \div 16),
           (b[2] % 16) * 4 + (b[3] \div 64), b[3] % 64>>
         \o ToBase64(SubSeq(b, 4, Len(b)))

\* Buffer.from(s, "base64"), the decoding a consumer of the tiles applies.
RECURSIVE FromBase64(_)
FromBase64(s) ==
    IF Len(s) < 4 THEN <<>>
    ELSE LET b1 == s[1] * 4 + (s[2] \div 16)
             b2 == (s[2] % 16) * 16 + (s[3] \div 4)
             b3 == (s[3] % 4) * 64 + s[4]
         IN  (IF s[3] = 64 THEN <<b1>>
              ELSE IF s[4] = 64 THEN <<b1, b2>>
              ELSE <<b1, b2, b3>>)
             \o FromBase64(SubSeq(s, 5, Len(s)))

\* Buffer.alloc(n): n zero bytes.
BufferAlloc(n) == [i \in 1..n |-> 0]

\* src.copy(dst, dstStart, srcStart, srcEnd): copies what both buffers hold.
BufferCopy(src, dst, dstStart, srcStart, srcEnd) ==
    LET n == Min(Min(srcEnd, Len(src)) - srcStart, Len(dst) - dstStart)
    IN  [i \in 1..Len(dst) |->
            IF i - 1 >= dstStart /\ i - 1 < dstStart + n
            THEN src[srcStart + (i - 1 - dstStart) + 1]
            ELSE dst[i]]

\* A row loop that reads every tile's rows from the left edge of the image.
CopyRows_fromLeftEdge(raw, width, x, y, tw, th, row, tileBuffer) ==
    [i \in 1..Len(tileBuffer) |->
        LET p == (i - 1) \div BytesPerPixel
            c == (i - 1) % BytesPerPixel
        IN  raw[((y + (p \div tw)) * width + (p % tw)) * BytesPerPixel + c + 1]]

\* The row loop of a tile: row by row into a buffer of tw * th pixels.
RECURSIVE CopyRows(_, _, _, _, _, _, _, _)
CopyRows(raw, width, x, y, tw, th, row, tileBuffer) ==
    IF row < th
    THEN LET srcStart == ((y + row) * width + x) * BytesPerPixel
             srcEnd == srcStart + tw * BytesPerPixel
             dstStart == row * tw * BytesPerPixel
         IN  CopyRows(raw, width, x, y, tw, th, row + 1,
                      BufferCopy(raw, tileBuffer, dstStart, srcStart, srcEnd))
    ELSE tileBuffer

\* sharp(png).extract({left, top, width, height}).raw().toBuffer(): the
\* pixels of the rectangle, row-major.
SharpExtractRaw(raw, imgWidth, left, top, w, h) ==
    [i \in 1..(w * h * BytesPerPixel) |->
        LET p == (i - 1) \div BytesPerPixel
            c == (i - 1) % BytesPerPixel
        IN  raw[((top + (p \div w)) * imgWidth + left + (p % w)) * BytesPerPixel + c + 1]]

\* A thrown exception.
Thrown(msg) == [threw |-> TRUE, error |-> msg]

\* The sub-rectangles of a band-by-band, column-by-column double loop, in
\* the order the loop reaches them.
GridRects(width, height, tileWidth, tileHeight) ==
    LET ys == ForSteps(0, height, tileHeight)
        xs == ForSteps(0, width, tileWidth)
    IN  Flatten([j \in 1..Len(ys) |->
                    [i \in 1..Len(xs) |->
                        [x |-> xs[i], y |-> ys[j],
                         w |-> Min(tileWidth, width - xs[i]),
                         h |-> Min(tileHeight, height - ys[j])]]])

\* src/unnamed/part_005 TileRawRgba.
TileRawRgba(raw, width, height, tileWidth, tileHeight) ==
    LET rects == GridRects(width, height, tileWidth, tileHeight)
    IN  [threw |-> FALSE,
         rects |-> rects,
         tiles |-> [i \in 1..Len(rects) |->
                      ToBase64(CopyRows(raw, width, rects[i].x, rects[i].y,
                                        rects[i].w, rects[i].h, 0,
                                        BufferAlloc(rects[i].w * rects[i].h * BytesPerPixel)))],
         tileWidths |-> [i \in 1..Len(rects) |-> rects[i].w],
         tileHeights |-> [i \in 1..Len(rects) |-> rects[i].h]]

\* src/unnamed/part_003 RenderLatexImage, the tiling loop: TileHeights gets
\* one entry per band, TileWidths one per tile.
RenderLatexImage_tiles(RawBuffer_, Width, Height, MaxTileSize) ==
    LET rects == GridRects(Width, Height, MaxTileSize, MaxTileSize)
        ys == ForSteps(0, Height, MaxTileSize)
    IN  [threw |-> FALSE,
         rects |-> rects,
         tiles |-> [i \in 1..Len(rects) |->
                      ToBase64(CopyRows(RawBuffer_, Width, rects[i].x, rects[i].y,
                                        rects[i].w, rects[i].h, 0,
                                        BufferAlloc(rects[i].w * rects[i].h * BytesPerPixel)))],
         tileWidths |-> [i \in 1..Len(rects) |-> rects[i].w],
         tileHeights |-> [j \in 1..Len(ys) |-> Min(MaxTileSize, Height - ys[j])]]

\* src/unnamed/part_002 svgToRgbaTiles (the edge is the literal 1024 there).
svgToRgbaTiles(raw, width, height, edge) ==
    IF width = 0 \/ height = 0 THEN Thrown("invalid raster dimensions")
    ELSE LET rects == GridRects(width, height, edge, edge)
         IN  [threw |-> FALSE,
              rects |-> rects,
              tiles |-> [i \in 1..Len(rects) |->
                           ToBase64(SharpExtractRaw(raw, width, rects[i].x, rects[i].y,
                                                    rects[i].w, rects[i].h))],
              tileWidths |-> [i \in 1..Len(rects) |-> rects[i].w],
              tileHeights |-> [i \in 1..Len(rects) |-> rects[i].h],
              width |-> width,
              height |-> height]

\* src/unnamed/part_000 SvgToRgbaTilesFast: one loop, over left; every tile
\* is extracted with top 0 and the full image height.
SvgToRgbaTilesFast(raw, width, height, maxTile) ==
    IF width = 0 \/ height = 0 THEN Thrown("SVG rasterized to invalid width/height")
    ELSE LET lefts == ForSteps(0, width, maxTile)
             rects == [i \in 1..Len(lefts) |->
                          [x |-> lefts[i], y |-> 0,
                           w |-> Min(maxTile, width - lefts[i]), h |-> height]]
         IN  [threw |-> FALSE,
              rects |-> rects,
              base64Chunks |-> [i \in 1..Len(rects) |->
                                  ToBase64(SharpExtractRaw(raw, width, rects[i].x, 0,
                                                           rects[i].w, height))],
              tileWidths |-> [i \in 1..Len(rects) |-> rects[i].w],
              width |-> width,
              height |-> height]

\* src/server.js SplitIntoTiles(Buffer, Width, Height).  The parameter is
\* named Buffer, so inside the function Buffer.alloc is looked up on the
\* pixel buffer passed in, an instance, which has no alloc method: the first
\* tile's Buffer.alloc(...) throws TypeError.  Without a tile to copy (Width
\* or Height 0) the loops run through and the lists are returned.
SplitIntoTiles(Buffer, Width, Height, MaxTileSize) ==
    LET NumTilesX == CeilDiv(Width, MaxTileSize)
        NumTilesY == CeilDiv(Height, MaxTileSize)
    IN  IF NumTilesY > 0 /\ NumTilesX > 0
        THEN Thrown("TypeError: Buffer.alloc is not a function")
        ELSE [threw |-> FALSE,
              rects |-> <<>>,
              Tiles |-> <<>>,
              TileWidths |-> IF NumTilesY > 0
                             THEN [TileX \in 1..NumTilesX |->
                                     Min(MaxTileSize, Width - (TileX - 1) * MaxTileSize)]
                             ELSE <<>>,
              TileHeights |-> [TileY \in 1..NumTilesY |->
                                 Min(MaxTileSize, Height - (TileY - 1) * MaxTileSize)]]

\* res.json(...) of the first app.post('/render') of server.js for a body
\* with latex and fontSize: the results of RenderLatexToSvg and of
\* ConvertSvgToPng (each thrown or not), then SplitIntoTiles; whatever is
\* thrown is caught and answered with its message.
RenderHandler(svg, png, PngBuffer, FinalWidth, FinalHeight, MaxTileSize) ==
    IF svg.threw THEN [success |-> FALSE, error |-> svg.error]
    ELSE IF png.threw THEN [success |-> FALSE, error |-> png.error]
    ELSE LET split == SplitIntoTiles(PngBuffer, FinalWidth, FinalHeight, MaxTileSize)
         IN  IF split.threw THEN [success |-> FALSE, error |-> split.error]
             ELSE [success |-> TRUE,
                   tiles |-> split.Tiles,
                   width |-> FinalWidth,
                   height |-> FinalHeight,
                   tileWidths |-> split.TileWidths,
                   tileHeights |-> split.TileHeights]

\* What RenderLatexToSvg and ConvertSvgToPng end in.
SvgResults == {[threw |-> FALSE], Thrown("Invalid SVG dimensions")}

PngResults == {[threw |-> FALSE], Thrown("Input buffer contains unsupported image format")}

(***************************************************************************)
(* The tiler specification: one rasterized image, the tilers applied to it.*)
(***************************************************************************)
Raw == RawBuffer(image.width, image.height, image.seed)

TilerInit ==
    /\ image \in [width : 0..MaxDim, height : 0..MaxDim, seed : {0, 1}]
    /\ tiled = [fn |-> "none"]
    /\ impl = "none"
    /\ capacity = 0
    /\ map = <<>>
    /\ now = 0
    /\ last = [op |-> "new", key |-> Null, ret |-> Null, removed |-> {}, repeat |-> FALSE,
               resident |-> FALSE]
    /\ lastSet = [k \in Keys |-> NoSet]
    /\ useSeq = <<>>
    /\ phase = "filling"
    /\ reqs = <<>>
    /\ stub = <<>>

\* part_005 RenderLatex: TileRawRgba(raw, width, height, tileWidth, tileHeight).
RunTileRawRgba(tw, th) ==
    /\ tiled' = [fn |-> "TileRawRgba", edgeW |-> tw, edgeH |-> th,
                 out |-> TileRawRgba(Raw, image.width, image.height, tw, th)]
    /\ UNCHANGED image
    /\ UNCHANGED cacheVars
    /\ UNCHANGED serverVars

\* part_003 RenderLatexImage: the inline tiling loop.
RunRenderLatexImage ==
    /\ tiled' = [fn |-> "RenderLatexImage", edgeW |-> TileEdge, edgeH |-> TileEdge,
                 out |-> RenderLatexImage_tiles(Raw, image.width, image.height, TileEdge)]
    /\ UNCHANGED image
    /\ UNCHANGED cacheVars
    /\ UNCHANGED serverVars

\* part_002 renderLatex: svgToRgbaTiles(svg, pixelDensity).
RunSvgToRgbaTiles ==
    /\ tiled' = [fn |-> "svgToRgbaTiles", edgeW |-> TileEdge, edgeH |-> TileEdge,
                 out |-> svgToRgbaTiles(Raw, image.width, image.height, TileEdge)]
    /\ UNCHANGED image
    /\ UNCHANGED cacheVars
    /\ UNCHANGED serverVars

\* part_000 /render: SvgToRgbaTilesFast(svg, fontPx, density).
RunSvgToRgbaTilesFast ==
    /\ tiled' = [fn |-> "SvgToRgbaTilesFast", edgeW |-> TileEdge, edgeH |-> TileEdge,
                 out |-> SvgToRgbaTilesFast(Raw, image.width, image.height, TileEdge)]
    /\ UNCHANGED image
    /\ UNCHANGED cacheVars
    /\ UNCHANGED serverVars

\* server.js /render (first handler): SplitIntoTiles(PngBuffer, FinalWidth, FinalHeight).
RunSplitIntoTiles ==
    /\ tiled' = [fn |-> "SplitIntoTiles", edgeW |-> TileEdge, edgeH |-> TileEdge,
                 out |-> SplitIntoTiles(Raw, image.width, image.height, TileEdge)]
    /\ UNCHANGED image
    /\ UNCHANGED cacheVars
    /\ UNCHANGED serverVars

\* server.js app.post('/render') (first handler), the image being what
\* ConvertSvgToPng returns when it returns.
RunRenderHandler(svg, png) ==
    /\ tiled' = [fn |-> "/render", svg |-> svg, png |-> png,
                 out |-> RenderHandler(svg, png, Raw, image.width, image.height, TileEdge)]
    /\ UNCHANGED image
    /\ UNCHANGED cacheVars
    /\ UNCHANGED serverVars

TilerNext ==
    \/ \E tw \in 1..TileEdge, th \in 1..TileEdge : RunTileRawRgba(tw, th)
    \/ RunRenderLatexImage
    \/ RunSvgToRgbaTiles
    \/ RunSvgToRgbaTilesFast
    \/ RunSplitIntoTiles
    \/ \E svg \in SvgResults, png \in PngResults : RunRenderHandler(svg, png)

SpecTiler == TilerInit /\ [][TilerNext]_vars

(***************************************************************************)
(* The servers.  A run of the server specification executes one of the     *)
(* programs (impl names which): its request handlers, its render pipeline  *)
(* and its cache, against a rasterizer whose behaviour at each pixel       *)
(* density is fixed for the run.  A handler runs up to its next await in   *)
(* one step; between the steps of one request those of another may run.    *)
(***************************************************************************)
Programs == {"server", "part_000", "part_002", "part_005"}

Requests == {"r1", "r2"}

Densities == {1, 2, 4}

\* The pixelDensity of a request body.
RequestDensities == {1, 4}

\* The latex of a request body: missing or given.
Latexes == {"", "x"}

\* The messages of the errors a render attempt can fail with.
Errors == {"e1", "e2"}

\* The capacities of the handlers' caches (500 and 800 in the source).
ServerCapacities == {1, 2}

RenderAttempts == 3

\* The retries argument /render and /prewarm of part_002 pass to renderLatex.
RenderRetries == 4

PrewarmRetries == 3

PixelDensityPrimary == 2

PixelDensityFallback == 1

DefaultFontSize == 64

DefaultPixelDensity == 2

\* What the rasterizer does at a density: it fails, it succeeds, or either;
\* or it succeeds with an image of two tiles, of which sharp may then fail
\* to extract the first or the second ("breaks").
Stubs ==
    {[d \in Densities |-> "fail"],
     [d \in Densities |-> IF d = 1 THEN "ok" ELSE "fail"],
     [d \in Densities |-> "flaky"],
     [d \in Densities |-> "breaks"]}

\* The images a rasterization can give, some with no pixel.
Images ==
    {[width |-> 0, height |-> 1, seed |-> 0],
     [width |-> 1, height |-> 0, seed |-> 0],
     [width |-> 1, height |-> 1, seed |-> 0],
     [width |-> 1, height |-> 1, seed |-> 1]}

\* An image one pixel wider than a tile: two tiles.
WideImage == [width |-> TileEdge + 1, height |-> 1, seed |-> 0]

\* The outcomes of one rasterization at density d under behaviour s: an
\* error, or an image and the tile (0: none) whose extraction will fail.
Outcomes(s, d) ==
    IF s[d] = "breaks"
    THEN {[ok |-> TRUE, image |-> WideImage, failAt |-> k] : k \in 0..2}
    ELSE (IF s[d] # "ok" THEN {[ok |-> FALSE, message |-> e] : e \in Errors} ELSE {})
           \cup (IF s[d] # "fail"
                 THEN {[ok |-> TRUE, image |-> i, failAt |-> 0] : i \in Images}
                 ELSE {})

\* The loop over the tiles, were an extraction that fails to end the loop
\* and leave the tiles pushed so far.
Extracted_keepDone(o, tiles) ==
    [threw |-> FALSE,
     tiles |-> IF o.failAt \in 1..Len(tiles) THEN SubSeq(tiles, 1, o.failAt - 1) ELSE tiles]

\* The loop over the tiles, each awaited from sharp(...).extract(...): an
\* extraction that fails throws out of the loop and of the function, and the
\* tiles pushed so far are dropped with the local list.
Extracted(o, tiles) ==
    IF o.failAt \in 1..Len(tiles) THEN Thrown("extract_area: bad extract area")
    ELSE [threw |-> FALSE, tiles |-> tiles]

\* The JS values of a request body's fields.  A string is the sequence of
\* its characters.
Undefined == [type |-> "undefined"]

Num(n) == [type |-> "number", n |-> n]

Str(chars) == [type |-> "string", chars |-> chars]

\* The decimal digits of a natural number, as characters.
RECURSIVE Digits(_)
Digits(n) ==
    LET d == <<"0", "1", "2", "3", "4", "5", "6", "7", "8", "9">>[(n % 10) + 1]
    IN  IF n < 10 THEN <<d>> ELSE Digits(n \div 10) \o <<d>>

\* `${v}`: the string a template literal makes of a value.
TemplateString(v) ==
    IF v.type = "string" THEN v.chars
    ELSE IF v.type = "number" THEN Digits(v.n)
    ELSE <<"u", "n", "d", "e", "f", "i", "n", "e", "d">>

\* GetRenderKey / CacheKey: `${latex}|${fontSize}|${pixelDensity}`.
GetRenderKey(Latex, FontSize, PixelDensity) ==
    TemplateString(Latex) \o <<"|">> \o TemplateString(FontSize)
        \o <<"|">> \o TemplateString(PixelDensity)

\* sharp(...).png().toBuffer() of a w x h tile: a header, then the pixels.
PngEncode(bytes, w, h) == <<137, 80, 78, 71, w, h>> \o bytes

\* server.js RenderLatex: one list entry per column in tileWidths, one per
\* band in tileHeights, one PNG per tile; no test of the dimensions.
RenderLatex(o, PixelDensity) ==
    IF ~o.ok THEN Thrown(o.message)
    ELSE LET TotalWidth == o.image.width
             TotalHeight == o.image.height
             RawBuffer_ == RawBuffer(TotalWidth, TotalHeight, o.image.seed)
             xs == ForSteps(0, TotalWidth, TileEdge)
             ys == ForSteps(0, TotalHeight, TileEdge)
             rects == GridRects(TotalWidth, TotalHeight, TileEdge, TileEdge)
             TilesBase64 ==
                 Extracted(o, [i \in 1..Len(rects) |->
                                 ToBase64(PngEncode(
                                     SharpExtractRaw(RawBuffer_, TotalWidth, rects[i].x, rects[i].y,
                                                     rects[i].w, rects[i].h),
                                     rects[i].w, rects[i].h))])
         IN  IF TilesBase64.threw THEN TilesBase64
             ELSE
             [threw |-> FALSE,
              tiles |-> TilesBase64.tiles,
              width |-> TotalWidth,
              height |-> TotalHeight,
              tileWidths |-> [i \in 1..Len(xs) |-> Min(TileEdge, TotalWidth - xs[i])],
              tileHeights |-> [j \in 1..Len(ys) |-> Min(TileEdge, TotalHeight - ys[j])],
              pixelDensity |-> PixelDensity]

\* part_000 /render: LatexToSvg, then SvgToRgbaTilesFast.
RenderFast(o) ==
    IF ~o.ok THEN Thrown(o.message)
    ELSE LET result == SvgToRgbaTilesFast(RawBuffer(o.image.width, o.image.height, o.image.seed),
                                          o.image.width, o.image.height, TileEdge)
         IN  IF result.threw THEN result
             ELSE LET base64Chunks == Extracted(o, result.base64Chunks)
                  IN  IF base64Chunks.threw THEN base64Chunks
                      ELSE [result EXCEPT !.base64Chunks = base64Chunks.tiles]

\* part_002 renderLatex, the body of one attempt: convert, svgToRgbaTiles.
RenderTiles(o) ==
    IF ~o.ok THEN Thrown(o.message)
    ELSE LET tilesResult == svgToRgbaTiles(RawBuffer(o.image.width, o.image.height, o.image.seed),
                                           o.image.width, o.image.height, TileEdge)
         IN  IF tilesResult.threw THEN tilesResult
             ELSE LET tiles == Extracted(o, tilesResult.tiles)
                  IN  IF tiles.threw THEN tiles
                      ELSE [tilesResult EXCEPT !.tiles = tiles.tiles]

\* part_005 SvgToRawRgba: image.resize(width, height) takes positive sizes
\* only and throws for a width or height of 0.
SvgToRawRgba(o, density) ==
    IF ~o.ok THEN Thrown(o.message)
    ELSE IF o.image.width = 0 \/ o.image.height = 0
    THEN Thrown("Expected positive integer for width")
    ELSE [threw |-> FALSE,
          raw |-> RawBuffer(o.image.width, o.image.height, o.image.seed),
          width |-> o.image.width,
          height |-> o.image.height]

\* part_005 RenderLatex, the body of one attempt.
RenderLatexAttempt(o, attempt) ==
    LET density == IF attempt = 1 THEN PixelDensityPrimary ELSE PixelDensityFallback
        r == SvgToRawRgba(o, density)
    IN  IF r.threw THEN r
        ELSE LET t == TileRawRgba(r.raw, r.width, r.height, TileEdge, TileEdge)
             IN  [threw |-> FALSE,
                  success |-> TRUE,
                  tiles |-> t.tiles,
                  width |-> r.width,
                  height |-> r.height,
                  tileWidths |-> t.tileWidths,
                  tileHeights |-> t.tileHeights,
                  pixelDensity |-> density]

\* How a pipeline call ended, if it has.
NoReturn == [how |-> "none"]

Returned(v) == [how |-> "returned", value |-> v]

Threw(msg) == [how |-> "threw", error |-> msg]

NoResponse == [sent |-> FALSE]

\* res.status(status).json(body).
Json(status, body) == [sent |-> TRUE, status |-> status, body |-> body]

\* A request not yet received.  Of the code: pc, kind, latex, density,
\* retries, attempt, lastError, rendered (the result of the attempt that
\* succeeded), ret, resp.  History: calls (of the pipeline), invoked
\* (rasterizations), thrown (the message of the error the latest failed
\* attempt threw), hit, order (the request was the order-th to complete).
NewRequest ==
    [pc |-> "idle", kind |-> "none", latex |-> "", density |-> 0, retries |-> 0,
     attempt |-> 0, lastError |-> Null, rendered |-> Null,
     ret |-> NoReturn, resp |-> NoResponse,
     calls |-> 0, invoked |-> 0, thrown |-> Null, hit |-> FALSE, order |-> 0]

\* The loop of attempts, were its test made before attempt++.
LoopContinues_oneMore(attempt, limit) == attempt <= limit

\* The loop of attempts goes on: attempt++ leaves attempt <= limit.
LoopContinues(attempt, limit) == attempt + 1 <= limit

\* LastError = Error, were the first error kept.
AssignLastError_keepFirst(LastError, Error) == IF LastError = Null THEN Error ELSE LastError

\* LastError = Error: what the variable holds after the catch block.
AssignLastError(LastError, Error) == Error

\* e && e.message ? e.message : placeholder.
MessageOr(message, placeholder) == IF message # "" THEN message ELSE placeholder

\* The request completing now is the next in the order of completion.
NextOrder == 1 + Cardinality({r \in Requests : reqs[r].pc = "done"})

KeyOf(q) ==
    GetRenderKey(Str(IF q.latex = "" THEN <<>> ELSE <<q.latex>>),
                 Num(DefaultFontSize), Num(q.density))

\* if (cached), were the look-up to find nothing.
Found_never(g, key) == FALSE

\* if (cached): the get returned a value, not null; the three get methods
\* return a value exactly when they leave the key's entry in the Map.
Found(g, key) == MapHas(g.map, key)

\* PrewarmCommon takes its formulas one after the other.
NoPrewarmInProgress ==
    \A r \in Requests : reqs[r].kind = "prewarm" => reqs[r].pc = "done"

ServerInit ==
    /\ impl \in Programs
    /\ capacity \in ServerCapacities
    /\ map = <<>>
    /\ now = 0
    /\ last = [op |-> "new", key |-> Null, ret |-> Null, removed |-> {}, repeat |-> FALSE,
               resident |-> FALSE]
    /\ lastSet = [k \in Keys |-> NoSet]
    /\ useSeq = <<>>
    /\ phase = "filling"
    /\ image = [width |-> 0, height |-> 0, seed |-> 0]
    /\ tiled = [fn |-> "none"]
    /\ reqs = [r \in Requests |-> NewRequest]
    /\ stub \in Stubs

\* What no step of a server changes.
serverFrame == <<impl, capacity, last, lastSet, useSeq, phase, image, tiled, stub>>

\* server.js App.post('/render') up to its await: the validation, the key,
\* RenderCache.Get, the response of a hit, the call of RenderWithRetries.
SrvRender(r, latex, d) ==
    /\ impl = "server"
    /\ reqs[r].pc = "idle"
    /\ LET q == [reqs[r] EXCEPT !.kind = "render", !.latex = latex, !.density = d]
           g == LruCache_Get(map, KeyOf(q))
       IN  IF latex = ""
           THEN /\ reqs' = [reqs EXCEPT ![r] =
                             [q EXCEPT !.pc = "done", !.order = NextOrder,
                                       !.resp = Json(400, [success |-> FALSE,
                                                           error |-> "Invalid request or MathJax not ready."])]]
                /\ map' = map
           ELSE /\ map' = g.map
                /\ reqs' = [reqs EXCEPT ![r] =
                             IF Found(g, KeyOf(q))
                             THEN [q EXCEPT !.pc = "done", !.order = NextOrder, !.hit = TRUE,
                                            !.resp = Json(200, [success |-> TRUE, result |-> g.ret])]
                             ELSE [q EXCEPT !.pc = "attempt", !.attempt = 1, !.calls = @ + 1]]
    /\ UNCHANGED now
    /\ UNCHANGED serverFrame

\* server.js PrewarmCommon, one formula up to the await: RenderCache.Get,
\* continue on a hit, the call of RenderWithRetries on a miss.
SrvPrewarm(r, d) ==
    /\ impl = "server"
    /\ reqs[r].pc = "idle"
    /\ NoPrewarmInProgress
    /\ LET q == [reqs[r] EXCEPT !.kind = "prewarm", !.latex = "x", !.density = d]
           g == LruCache_Get(map, KeyOf(q))
       IN  /\ map' = g.map
           /\ reqs' = [reqs EXCEPT ![r] =
                        IF Found(g, KeyOf(q))
                        THEN [q EXCEPT !.pc = "done", !.order = NextOrder, !.hit = TRUE]
                        ELSE [q EXCEPT !.pc = "attempt", !.attempt = 1, !.calls = @ + 1]]
    /\ UNCHANGED now
    /\ UNCHANGED serverFrame

\* server.js RenderWithRetries, one turn of its loop: RenderLatex with the
\* PixelDensity it was called with; the result is returned, or the error
\* kept in LastError and, after the last attempt, thrown.
SrvAttempt(r) ==
    /\ impl = "server"
    /\ reqs[r].pc = "attempt"
    /\ \E o \in Outcomes(stub, reqs[r].density) :
         LET Result == RenderLatex(o, reqs[r].density)
             q == [reqs[r] EXCEPT !.invoked = @ + 1]
             failed == [q EXCEPT !.lastError = AssignLastError(q.lastError, Result.error),
                                 !.thrown = Result.error]
         IN  reqs' = [reqs EXCEPT ![r] =
                       IF ~Result.threw
                       THEN [q EXCEPT !.pc = "returned", !.rendered = Result,
                                      !.ret = Returned(Result)]
                       ELSE IF LoopContinues(q.attempt, RenderAttempts)
                       THEN [failed EXCEPT !.attempt = @ + 1]
                       ELSE [failed EXCEPT !.pc = "threw",
                                           !.ret = Threw(failed.lastError)]]
    /\ UNCHANGED <<map, now>>
    /\ UNCHANGED serverFrame

\* The cache after the try/catch around RenderWithRetries, had
\* RenderCache.Set been placed after it instead of inside the try block.
CacheAfterRender_always(q) ==
    LruCache_Set(map, capacity, KeyOf(q),
                 IF q.pc = "returned" THEN q.ret.value
                 ELSE [success |-> FALSE, error |-> q.ret.error])

\* The cache after the try/catch around RenderWithRetries: RenderCache.Set
\* is the statement after the await, skipped when the await throws.
CacheAfterRender(q) ==
    IF q.pc = "returned" THEN LruCache_Set(map, capacity, KeyOf(q), q.ret.value) ELSE map

\* server.js after the await of RenderWithRetries, in /render and in
\* PrewarmCommon: RenderCache.Set and the response, or the catch block.
SrvComplete(r) ==
    /\ impl = "server"
    /\ reqs[r].pc \in {"returned", "threw"}
    /\ LET q == reqs[r]
       IN  IF q.pc = "returned"
           THEN /\ map' = CacheAfterRender(q)
                /\ reqs' = [reqs EXCEPT ![r] =
                             [q EXCEPT !.pc = "done", !.order = NextOrder,
                                       !.resp = IF q.kind = "render"
                                                THEN Json(200, [success |-> TRUE, result |-> q.ret.value])
                                                ELSE NoResponse]]
           ELSE /\ map' = CacheAfterRender(q)
                /\ reqs' = [reqs EXCEPT ![r] =
                             [q EXCEPT !.pc = "done", !.order = NextOrder,
                                       !.resp = IF q.kind = "render"
                                                THEN Json(500, [success |-> FALSE,
                                                                error |-> <<"Render failed after 3 attempts: ",
                                                                            q.ret.error>>])
                                                ELSE NoResponse]]
    /\ UNCHANGED now
    /\ UNCHANGED serverFrame

\* part_000 App.post('/render') up to its await: the validation, the key,
\* Cache.get, the response of a hit.
P0Render(r, latex, d) ==
    /\ impl = "part_000"
    /\ reqs[r].pc = "idle"
    /\ LET q == [reqs[r] EXCEPT !.kind = "render", !.latex = latex, !.density = d]
           g == LruCache_get(map, KeyOf(q), now)
       IN  IF latex = ""
           THEN /\ reqs' = [reqs EXCEPT ![r] =
                             [q EXCEPT !.pc = "done", !.order = NextOrder,
                                       !.resp = Json(400, [error |-> "latex string required"])]]
                /\ map' = map
           ELSE /\ map' = g.map
                /\ reqs' = [reqs EXCEPT ![r] =
                             IF Found(g, KeyOf(q))
                             THEN [q EXCEPT !.pc = "done", !.order = NextOrder, !.hit = TRUE,
                                            !.resp = Json(200, g.ret)]
                             ELSE [q EXCEPT !.pc = "attempt", !.attempt = 1, !.calls = @ + 1]]
    /\ UNCHANGED now
    /\ UNCHANGED serverFrame

\* part_000 PrewarmCommon, one entry up to its await: no look-up.
P0Prewarm(r, d) ==
    /\ impl = "part_000"
    /\ reqs[r].pc = "idle"
    /\ NoPrewarmInProgress
    /\ reqs' = [reqs EXCEPT ![r] =
                 [@ EXCEPT !.kind = "prewarm", !.latex = "x", !.density = d,
                           !.pc = "attempt", !.attempt = 1, !.calls = @ + 1]]
    /\ UNCHANGED <<map, now>>
    /\ UNCHANGED serverFrame

\* part_000 LatexToSvg and SvgToRgbaTilesFast: one rasterization.
P0Attempt(r) ==
    /\ impl = "part_000"
    /\ reqs[r].pc = "attempt"
    /\ \E o \in Outcomes(stub, reqs[r].density) :
         LET result == RenderFast(o)
             q == [reqs[r] EXCEPT !.invoked = @ + 1]
         IN  reqs' = [reqs EXCEPT ![r] =
                       IF ~result.threw
                       THEN [q EXCEPT !.pc = "returned", !.rendered = result,
                                      !.ret = Returned(result)]
                       ELSE [q EXCEPT !.lastError = result.error,
                                      !.thrown = result.error,
                                      !.pc = "threw",
                                      !.ret = Threw(result.error)]]
    /\ UNCHANGED <<map, now>>
    /\ UNCHANGED serverFrame

\* part_000 after the await, in /render and in PrewarmCommon: Cache.set and
\* the response, or the catch block.
P0Complete(r) ==
    /\ impl = "part_000"
    /\ reqs[r].pc \in {"returned", "threw"}
    /\ LET q == reqs[r]
       IN  IF q.pc = "returned"
           THEN /\ map' = LruCache_set(map, capacity, KeyOf(q), q.ret.value, Ttl, now)
                /\ reqs' = [reqs EXCEPT ![r] =
                             [q EXCEPT !.pc = "done", !.order = NextOrder,
                                       !.resp = IF q.kind = "render"
                                                THEN Json(200, q.ret.value)
                                                ELSE NoResponse]]
           ELSE /\ map' = map
                /\ reqs' = [reqs EXCEPT ![r] =
                             [q EXCEPT !.pc = "done", !.order = NextOrder,
                                       !.resp = IF q.kind = "render"
                                                THEN Json(500, [error |-> q.ret.error])
                                                ELSE NoResponse]]
    /\ UNCHANGED now
    /\ UNCHANGED serverFrame

\* The clock of part_000 (Date.now(), in seconds) advances.
Tick ==
    /\ impl = "part_000"
    /\ now < MaxTime
    /\ now' = now + 1
    /\ UNCHANGED <<map, reqs>>
    /\ UNCHANGED serverFrame

\* part_002 renderLatex from its call to its loop: the key, Cache.get, the
\* return of a cached result.
renderLatex_begin(r, q, retries) ==
    LET g == P2_LruCache_get(map, KeyOf(q))
    IN  /\ map' = g.map
        /\ reqs' = [reqs EXCEPT ![r] =
                     IF Found(g, KeyOf(q))
                     THEN [q EXCEPT !.pc = "returned", !.hit = TRUE, !.retries = retries,
                                    !.calls = @ + 1,
                                    !.ret = Returned([success |-> TRUE, cached |-> TRUE,
                                                      result |-> g.ret])]
                     ELSE [q EXCEPT !.pc = "attempt", !.attempt = 1, !.retries = retries,
                                    !.calls = @ + 1]]

\* part_002 App.post("/render") up to its await: the validation and the
\* call renderLatex(latex, fontSize, pixelDensity, 4).
P2Render(r, latex, d) ==
    /\ impl = "part_002"
    /\ reqs[r].pc = "idle"
    /\ LET q == [reqs[r] EXCEPT !.kind = "render", !.latex = latex, !.density = d]
       IN  IF latex = ""
           THEN /\ reqs' = [reqs EXCEPT ![r] =
                             [q EXCEPT !.pc = "done", !.order = NextOrder,
                                       !.resp = Json(400, [success |-> FALSE,
                                                           error |-> "latex required"])]]
                /\ map' = map
           ELSE renderLatex_begin(r, q, RenderRetries)
    /\ UNCHANGED now
    /\ UNCHANGED serverFrame

\* part_002 App.post("/prewarm"), one job up to its await: the call
\* renderLatex(latex, fontSize, pixelDensity, 3).
P2Prewarm(r, d) ==
    /\ impl = "part_002"
    /\ reqs[r].pc = "idle"
    /\ NoPrewarmInProgress
    /\ renderLatex_begin(r, [reqs[r] EXCEPT !.kind = "prewarm", !.latex = "x", !.density = d],
                         PrewarmRetries)
    /\ UNCHANGED now
    /\ UNCHANGED serverFrame

\* part_002 renderLatex, one turn of its loop up to the await of
\* svgToRgbaTiles, and the catch block when that throws.
P2Attempt(r) ==
    /\ impl = "part_002"
    /\ reqs[r].pc = "attempt"
    /\ \E o \in Outcomes(stub, reqs[r].density) :
         LET tilesResult == RenderTiles(o)
             q == [reqs[r] EXCEPT !.invoked = @ + 1]
             failed == [q EXCEPT !.lastError = AssignLastError(q.lastError, tilesResult.error),
                                 !.thrown = tilesResult.error]
         IN  reqs' = [reqs EXCEPT ![r] =
                       IF ~tilesResult.threw
                       THEN [q EXCEPT !.pc = "rasterized", !.rendered = tilesResult]
                       ELSE IF LoopContinues(q.attempt, q.retries)
                       THEN [failed EXCEPT !.attempt = @ + 1]
                       ELSE [failed EXCEPT !.pc = "returned",
                                           !.ret = Returned([success |-> FALSE,
                                                             error |-> MessageOr(tilesResult.error,
                                                                                 "Error")])]]
    /\ UNCHANGED <<map, now>>
    /\ UNCHANGED serverFrame

\* part_002 renderLatex after the await of svgToRgbaTiles: Cache.set and
\* the return of the result.
P2Store(r) ==
    /\ impl = "part_002"
    /\ reqs[r].pc = "rasterized"
    /\ map' = P2_LruCache_set(map, capacity, KeyOf(reqs[r]), reqs[r].rendered, now)
    /\ reqs' = [reqs EXCEPT ![r] =
                 [@ EXCEPT !.pc = "returned",
                           !.ret = Returned([success |-> TRUE, cached |-> FALSE,
                                             result |-> reqs[r].rendered])]]
    /\ UNCHANGED now
    /\ UNCHANGED serverFrame

\* part_002 /render and /prewarm after the await of renderLatex: the response.
P2Complete(r) ==
    /\ impl = "part_002"
    /\ reqs[r].pc = "returned"
    /\ LET q == reqs[r]
           result == q.ret.value
       IN  /\ reqs' = [reqs EXCEPT ![r] =
                        [q EXCEPT !.pc = "done", !.order = NextOrder,
                                  !.resp = IF q.kind = "prewarm"
                                           THEN Json(200, [ok |-> TRUE, results |-> <<result.success>>])
                                           ELSE IF ~result.success
                                           THEN Json(500, [success |-> FALSE, error |-> result.error])
                                           ELSE Json(200, [success |-> TRUE, result |-> result.result])]]
    /\ UNCHANGED <<map, now>>
    /\ UNCHANGED serverFrame

\* part_005 App.post("/render") up to the call of RenderLatex.
P5Render(r, latex) ==
    /\ impl = "part_005"
    /\ reqs[r].pc = "idle"
    /\ LET q == [reqs[r] EXCEPT !.kind = "render", !.latex = latex]
       IN  reqs' = [reqs EXCEPT ![r] =
                     IF latex = ""
                     THEN [q EXCEPT !.pc = "done", !.order = NextOrder,
                                    !.resp = Json(200, [success |-> FALSE, error |-> "InvalidInput"])]
                     ELSE [q EXCEPT !.pc = "attempt", !.attempt = 1, !.calls = @ + 1]]
    /\ UNCHANGED <<map, now>>
    /\ UNCHANGED serverFrame

\* part_005 RenderLatex, one turn of its loop: the result is returned, or
\* the message kept in lastError and, after the last attempt, returned.
P5Attempt(r) ==
    /\ impl = "part_005"
    /\ reqs[r].pc = "attempt"
    /\ LET density == IF reqs[r].attempt = 1 THEN PixelDensityPrimary ELSE PixelDensityFallback
       IN  \E o \in Outcomes(stub, density) :
             LET result == RenderLatexAttempt(o, reqs[r].attempt)
                 q == [reqs[r] EXCEPT !.invoked = @ + 1]
                 failed == [q EXCEPT !.lastError = AssignLastError(q.lastError,
                                                                  MessageOr(result.error, "UnknownError")),
                                     !.thrown = result.error]
             IN  reqs' = [reqs EXCEPT ![r] =
                           IF ~result.threw
                           THEN [q EXCEPT !.pc = "returned", !.rendered = result,
                                          !.ret = Returned(result)]
                           ELSE IF LoopContinues(q.attempt, RenderAttempts)
                           THEN [failed EXCEPT !.attempt = @ + 1]
                           ELSE [failed EXCEPT !.pc = "returned",
                                               !.ret = Returned([success |-> FALSE,
                                                                 error |-> MessageOr(failed.lastError,
                                                                                     "RenderFailed")])]]
    /\ UNCHANGED <<map, now>>
    /\ UNCHANGED serverFrame

\* part_005 /render after the await of RenderLatex: res.json(result).
P5Complete(r) ==
    /\ impl = "part_005"
    /\ reqs[r].pc = "returned"
    /\ reqs' = [reqs EXCEPT ![r] =
                 [@ EXCEPT !.pc = "done", !.order = NextOrder, !.resp = Json(200, reqs[r].ret.value)]]
    /\ UNCHANGED <<map, now>>
    /\ UNCHANGED serverFrame

\* The steps of the requests rs.
ServerSteps(rs) ==
    \/ \E r \in rs, latex \in Latexes, d \in RequestDensities : SrvRender(r, latex, d)
    \/ \E r \in rs, d \in RequestDensities : SrvPrewarm(r, d)
    \/ \E r \in rs : SrvAttempt(r)
    \/ \E r \in rs : SrvComplete(r)
    \/ \E r \in rs, latex \in Latexes, d \in RequestDensities : P0Render(r, latex, d)
    \/ \E r \in rs, d \in RequestDensities : P0Prewarm(r, d)
    \/ \E r \in rs : P0Attempt(r)
    \/ \E r \in rs : P0Complete(r)
    \/ Tick
    \/ \E r \in rs, latex \in Latexes, d \in RequestDensities : P2Render(r, latex, d)
    \/ \E r \in rs, d \in RequestDensities : P2Prewarm(r, d)
    \/ \E r \in rs : P2Attempt(r)
    \/ \E r \in rs : P2Store(r)
    \/ \E r \in rs : P2Complete(r)
    \/ \E r \in rs, latex \in Latexes : P5Render(r, latex)
    \/ \E r \in rs : P5Attempt(r)
    \/ \E r \in rs : P5Complete(r)

ServerNext == ServerSteps(Requests)

SpecServer == ServerInit /\ [][ServerNext]_vars

\* What request r does after an await: the promise it waits for settles
\* (the rasterizer answers or fails, the backoff timer fires) and the event
\* loop runs the continuation.
Continue(r) ==
    \/ SrvAttempt(r) \/ SrvComplete(r)
    \/ P0Attempt(r) \/ P0Complete(r)
    \/ P2Attempt(r) \/ P2Store(r) \/ P2Complete(r)
    \/ P5Attempt(r) \/ P5Complete(r)

\* A server that receives one request, r1, and no other; the continuation
\* it is waiting for is run eventually.  The rasterizer fails or succeeds as
\* a whole: the runs in which the extraction of a tile fails are those of
\* SpecServer.
OneCallNext == ServerSteps({"r1"})

OneCallInit == ServerInit /\ \A d \in Densities : stub[d] # "breaks"

SpecOneCallFair == OneCallInit /\ [][OneCallNext]_vars /\ WF_vars(Continue("r1"))

(***************************************************************************)
(* The keys.  A run of the key specification sends two /render requests    *)
(* to server.js or to part_000, their bodies taken from a set in which a   *)
(* field can be missing and, the handler of server.js validating nothing   *)
(* but the presence of latex, fontSize can be a string.  The render is     *)
(* abstracted to the fields it was called with.                            *)
(***************************************************************************)
KeyedPrograms == {"server", "part_000"}

\* The latex of a body: x and x|1.
BodyLatexes == {Str(<<"x">>), Str(<<"x", "|", "1">>)}

\* The fontSize of a body: missing, 2, and the string 1|2.
BodyFontSizes == {Undefined, Num(2), Str(<<"1", "|", "2">>)}

\* The pixelDensity of a body: missing and 1.
BodyPixelDensities == {Undefined, Num(1)}

Bodies ==
    [latex : BodyLatexes, fontSize : BodyFontSizes, pixelDensity : BodyPixelDensities]

\* const { fontSize = d } = body: the default replaces undefined only.
DefaultIfUndefined(v, d) == IF v = Undefined THEN Num(d) ELSE v

\* Number.isFinite(v) ? v : d.
DefaultIfNotFinite(v, d) == IF v.type = "number" THEN v ELSE Num(d)

\* The (latex, fontSize, pixelDensity) the handler goes on with: server.js
\* 364, part_000 194-197.
FieldsOf(body) ==
    IF impl = "server"
    THEN [latex |-> body.latex,
          fontSize |-> DefaultIfUndefined(body.fontSize, DefaultFontSize),
          pixelDensity |-> DefaultIfUndefined(body.pixelDensity, DefaultPixelDensity)]
    ELSE [latex |-> body.latex,
          fontSize |-> DefaultIfNotFinite(body.fontSize, DefaultFontSize),
          pixelDensity |-> DefaultIfNotFinite(body.pixelDensity, DefaultPixelDensity)]

\* The key of the fields: GetRenderKey(latex, fontSize, pixelDensity) and
\* CacheKey(latex, fontPx, density).
CacheKey(f) == GetRenderKey(f.latex, f.fontSize, f.pixelDensity)

\* The render of the fields: in server.js FontSize * PixelDensity is NaN
\* for a fontSize that is no number, a density sharp rejects.
Renders(f) == f.fontSize.type = "number" /\ f.pixelDensity.type = "number"

KeyedGet(key) ==
    IF impl = "server" THEN LruCache_Get(map, key) ELSE LruCache_get(map, key, now)

KeyedSet(key, value) ==
    IF impl = "server" THEN LruCache_Set(map, capacity, key, value)
    ELSE LruCache_set(map, capacity, key, value, Ttl, now)

KeysInit ==
    /\ impl \in KeyedPrograms
    /\ capacity \in ServerCapacities
    /\ map = <<>>
    /\ now = 0
    /\ last = [op |-> "new", key |-> Null, ret |-> Null, removed |-> {}, repeat |-> FALSE,
               resident |-> FALSE]
    /\ lastSet = [k \in Keys |-> NoSet]
    /\ useSeq = <<>>
    /\ phase = "filling"
    /\ image = [width |-> 0, height |-> 0, seed |-> 0]
    /\ tiled = [fn |-> "none"]
    /\ reqs = [r \in Requests |-> [pc |-> "idle"]]
    /\ stub = <<>>

\* /render up to its await: the fields, the key, the get, the response of
\* a hit.
KeyedLookup(r, body) ==
    /\ reqs[r].pc = "idle"
    /\ LET f == FieldsOf(body)
           key == CacheKey(f)
           g == KeyedGet(key)
       IN  /\ map' = g.map
           /\ reqs' = [reqs EXCEPT ![r] =
                        IF Found(g, key)
                        THEN [pc |-> "done", fields |-> f, key |-> key, hit |-> TRUE,
                              resp |-> Json(200, g.ret)]
                        ELSE [pc |-> "rendering", fields |-> f, key |-> key, hit |-> FALSE,
                              resp |-> NoResponse]]
    /\ UNCHANGED now
    /\ UNCHANGED serverFrame

\* /render after its await: the set and the response, or the catch block.
KeyedStore(r) ==
    /\ reqs[r].pc = "rendering"
    /\ LET q == reqs[r]
           result == [renderedFor |-> q.fields]
       IN  IF Renders(q.fields)
           THEN /\ map' = KeyedSet(q.key, result)
                /\ reqs' = [reqs EXCEPT ![r] = [q EXCEPT !.pc = "done", !.resp = Json(200, result)]]
           ELSE /\ map' = map
                /\ reqs' = [reqs EXCEPT ![r] =
                             [q EXCEPT !.pc = "done",
                                       !.resp = Json(500, [error |-> "Render failed"])]]
    /\ UNCHANGED now
    /\ UNCHANGED serverFrame

KeysNext ==
    \/ \E r \in Requests, body \in Bodies : KeyedLookup(r, body)
    \/ \E r \in Requests : KeyedStore(r)

SpecKeys == KeysInit /\ [][KeysNext]_vars

(***************************************************************************)
(* The retries and their waits: the loops of server.js (RenderWithRetries),*)
(* part_002 and part_003 (renderLatex) and the two recursive functions of  *)
(* server.js, one call of one of them against a clock in milliseconds.     *)
(* reqs is the call: pc, attempt, limit, lastError and wake (the time the  *)
(* pending setTimeout is due) are of the code; startedAt, failedAt,        *)
(* waitedFrom, endedAt, invoked, thrown and thrownAt are history.          *)
(***************************************************************************)
TickMs == 50

MaxClock == 1500

BackoffDelay == 150

\* The literal of renderLatex in part_002 and part_003: 120 * attempt.
RenderLatexDelay == 120

\* The literal of RenderLatexToSvg and ConvertSvgToPng: Attempt * 200.
RecursionDelay == 200

\* The literal of RenderLatexToSvg and ConvertSvgToPng: Attempt < 3.
RecursionAttempts == 3

\* The literal of renderLatex in part_003: attempt <= 5.
RenderLatexAttempts == 5

RetryLoops == {"server", "part_002", "part_003"}

RetryRecursions == {"RenderLatexToSvg", "ConvertSvgToPng"}

NoTimer == -1

\* The number of attempts a call may make.
Limits(fn) ==
    IF fn = "server" THEN {RenderAttempts}
    ELSE IF fn = "part_002" THEN {PrewarmRetries, RenderRetries}
    ELSE IF fn = "part_003" THEN {RenderLatexAttempts}
    ELSE {RecursionAttempts}

\* The factor of the wait.
BaseDelay(fn) ==
    IF fn = "server" THEN BackoffDelay
    ELSE IF fn \in {"part_002", "part_003"} THEN RenderLatexDelay
    ELSE RecursionDelay

\* The wait after failed attempt number attempt, were it the same after
\* every attempt.
Backoff_flat(base, attempt) == base

\* BackoffDelay * Attempt, 120 * attempt, Attempt * 200.
Backoff(base, attempt) == base * attempt

\* if (Attempt < RenderAttempts) await ...: a wait follows the failure.
BacksOff(attempt, limit) == attempt < limit

\* What an attempt can end in: a result, or an error with a message; or
\* the promise it awaits never settles ("never").
AttemptOutcomes == {"ok", "never"} \cup Errors

\* The call left at its await of an attempt that never settles: nothing of
\* the function races the await against a timer, so no step follows.
Pending(q) == [q EXCEPT !.pc = "pending"]

\* The statements of the catch block between the wait and the
\* re-invocation.  ConvertSvgToPng evaluates Density there, a const of the
\* try block, out of scope in the catch block: a ReferenceError.
AfterWait(fn) ==
    IF fn = "ConvertSvgToPng" THEN Thrown("Density is not defined")
    ELSE [threw |-> FALSE]

NewCall(limit) ==
    [pc |-> "attempt", attempt |-> 1, limit |-> limit, lastError |-> Null,
     wake |-> NoTimer, startedAt |-> 0, failedAt |-> NoTimer, waitedFrom |-> NoTimer,
     endedAt |-> NoTimer, invoked |-> 0, thrown |-> Null, thrownAt |-> 0,
     ret |-> NoReturn, resp |-> NoResponse]

RetryInit ==
    /\ impl \in RetryLoops \cup RetryRecursions
    /\ capacity = 1
    /\ map = <<>>
    /\ now = 0
    /\ last = [op |-> "new", key |-> Null, ret |-> Null, removed |-> {}, repeat |-> FALSE,
               resident |-> FALSE]
    /\ lastSet = [k \in Keys |-> NoSet]
    /\ useSeq = <<>>
    /\ phase = "filling"
    /\ image = [width |-> 0, height |-> 0, seed |-> 0]
    /\ tiled = [fn |-> "none"]
    /\ reqs \in {NewCall(limit) : limit \in Limits(impl)}
    /\ stub = <<>>

retryFrame == <<impl, capacity, map, last, lastSet, useSeq, phase, image, tiled, stub>>

\* The call as the failure of an attempt at time t leaves it.
Failed(q, message, t) ==
    [q EXCEPT !.lastError = AssignLastError(q.lastError, message),
              !.thrown = message,
              !.thrownAt = q.attempt,
              !.failedAt = t]

\* The call with its timer set at time t.
Waiting(q, t) ==
    [q EXCEPT !.pc = "waiting", !.wake = t + Backoff(BaseDelay(impl), q.attempt)]

\* The call ended at time t.
Ended(q, ret, resp, t) ==
    [q EXCEPT !.pc = "ended", !.ret = ret, !.resp = resp, !.endedAt = t]

\* The call at the start of its next attempt, at time t.
NextAttempt(q, t) ==
    [q EXCEPT !.pc = "attempt", !.attempt = @ + 1, !.wake = NoTimer,
              !.startedAt = t, !.waitedFrom = q.failedAt]

\* What the loop ends in when the last attempt has failed: server.js
\* throws LastError, part_002 and part_003 return a failure.
LoopFailure(q) ==
    IF impl = "server" THEN Threw(q.lastError)
    ELSE Returned([success |-> FALSE, error |-> MessageOr(q.lastError, q.lastError)])

\* One turn of a loop, taking dt: the attempt returns, or its error is
\* caught and the timer is set, or, after the last attempt, the loop ends.
LoopAttempt(dt, outcome) ==
    /\ impl \in RetryLoops
    /\ reqs.pc = "attempt"
    /\ dt = 0 \/ now + dt <= MaxClock
    /\ now' = now + dt
    /\ LET q == [reqs EXCEPT !.invoked = @ + 1]
           failed == Failed(q, outcome, now')
       IN  reqs' = IF outcome = "never" THEN Pending(q)
                   ELSE IF outcome = "ok"
                   THEN Ended(q, Returned([success |-> TRUE]), NoResponse, now')
                   ELSE IF BacksOff(q.attempt, q.limit)
                   THEN Waiting(failed, now')
                   ELSE Ended(failed, LoopFailure(failed), NoResponse, now')
    /\ UNCHANGED retryFrame

\* The timer of a loop fires, not before it is due: attempt++ and the test
\* of the loop.
LoopResume ==
    /\ impl \in RetryLoops
    /\ reqs.pc = "waiting"
    /\ now >= reqs.wake
    /\ reqs' = IF LoopContinues(reqs.attempt, reqs.limit)
               THEN NextAttempt(reqs, now)
               ELSE Ended(reqs, LoopFailure(reqs), NoResponse, now)
    /\ UNCHANGED now
    /\ UNCHANGED retryFrame

\* res.json({ success: false, error: Error.message }) of the first /render
\* of server.js, whose catch block receives what the function throws.
RenderCatch(message) == Json(200, [success |-> FALSE, error |-> message])

\* One invocation of RenderLatexToSvg or ConvertSvgToPng, taking dt: it
\* returns, or its catch block sets the timer (Attempt < 3) or throws the
\* error it caught.
RecursionAttempt(dt, outcome) ==
    /\ impl \in RetryRecursions
    /\ reqs.pc = "attempt"
    /\ dt = 0 \/ now + dt <= MaxClock
    /\ now' = now + dt
    /\ LET q == [reqs EXCEPT !.invoked = @ + 1]
           failed == Failed(q, outcome, now')
       IN  reqs' = IF outcome = "never" THEN Pending(q)
                   ELSE IF outcome = "ok"
                   THEN Ended(q, Returned([success |-> TRUE]), NoResponse, now')
                   ELSE IF BacksOff(q.attempt, q.limit)
                   THEN Waiting(failed, now')
                   ELSE Ended(failed, Threw(outcome), RenderCatch(outcome), now')
    /\ UNCHANGED retryFrame

\* The timer of a catch block fires: the statements after the wait, then
\* the re-invocation with Attempt + 1, whose outcome is returned as it is.
RecursionResume ==
    /\ impl \in RetryRecursions
    /\ reqs.pc = "waiting"
    /\ now >= reqs.wake
    /\ LET after == AfterWait(impl)
       IN  reqs' = IF after.threw
                   THEN Ended([reqs EXCEPT !.wake = NoTimer],
                              Threw(after.error), RenderCatch(after.error), now)
                   ELSE NextAttempt(reqs, now)
    /\ UNCHANGED now
    /\ UNCHANGED retryFrame

\* Time passes while the timer is pending: up to the time it is due, and
\* beyond it as far as the clock of the specification goes.
TimerPending ==
    /\ reqs.pc = "waiting"
    /\ now < reqs.wake \/ now + TickMs <= MaxClock
    /\ now' = now + TickMs
    /\ UNCHANGED reqs
    /\ UNCHANGED retryFrame

RetryNext ==
    \/ \E dt \in {0, TickMs}, outcome \in AttemptOutcomes : LoopAttempt(dt, outcome)
    \/ LoopResume
    \/ \E dt \in {0, TickMs}, outcome \in AttemptOutcomes : RecursionAttempt(dt, outcome)
    \/ RecursionResume
    \/ TimerPending

SpecRetry == RetryInit /\ [][RetryNext]_vars

\* The same, every promise that settles and every timer that fires being
\* followed by its continuation.
SpecRetryFair == SpecRetry /\ WF_vars(RetryNext)

(***************************************************************************)
(* Claims about the caches.                                                *)
(***************************************************************************)
WithExpiry == impl = "part_000"

GetSetCaches == impl \in {"part_000", "server"}

\* The keys set at least once so far.
EverSet == {k \in Keys : lastSet[k] # NoSet}

\* The resident key used least recently, by the history of uses.
LruKey(m, seq) ==
    seq[CHOOSE i \in 1..Len(seq) :
            /\ seq[i] \in MapKeys(m)
            /\ \A j \in 1..(i - 1) : seq[j] \notin MapKeys(m)]

\* C1: in each of the three LruCache classes, a cache of capacity C >= 1
\* holds at most C entries (and no key twice) after every get, set and delete.
C1_SizeWithinCapacity ==
    capacity >= 1 =>
        /\ Len(map) <= capacity
        /\ Cardinality(MapKeys(map)) = Len(map)

C1_Witness ==
    /\ capacity >= 1
    /\ last.op = "set"
    /\ last.removed # {}
    /\ Len(map) = capacity

\* C2: whenever get(k) returns a value (part_000, server.js), it is the value
\* given to the latest set of k: not another key's, not one a later set replaced.
C2_GetReturnsLatestSet ==
    (GetSetCaches /\ last.op = "get" /\ last.ret # Null) =>
        last.ret = lastSet[last.key].value

C2_Witness ==
    /\ GetSetCaches
    /\ last.op = "get"
    /\ last.ret = "v2"
    /\ \E i \in 1..Len(map) : map[i].key # last.key /\ map[i].value = "v1"

\* C3 as stated: a value is returned only when now < t + ttl, so a get at
\* the exact instant now = t + ttl is already a miss.
C3_Original_FreshMeansBeforeExpiry ==
    (WithExpiry /\ last.op = "get" /\ last.ret # Null /\ MapHas(map, last.key)) =>
        now < MapEntry(map, last.key).ts + MapEntry(map, last.key).ttl

\* C3, amended: part_000 get of an entry inserted at t with time-to-live ttl
\* returns absent and removes the entry (without moving anything) at every
\* time now > t + ttl; it returns the value, the entry moved last, at every
\* time now <= t + ttl, the instant now = t + ttl included.
C3_ExpiryAtRead ==
    [][ (WithExpiry /\ last'.op = "get" /\ MapHas(map, last'.key)) =>
            LET k == last'.key
                e == MapEntry(map, k)
            IN  IF now' > e.ts + e.ttl
                THEN /\ last'.ret = Null
                     /\ map' = MapDelete(map, k)
                ELSE /\ last'.ret = e.value
                     /\ map' = Append(MapDelete(map, k), e) ]_vars

C3_Witness ==
    /\ WithExpiry
    /\ last.op = "get"
    /\ last.ret = Null
    /\ last.removed = {last.key}

\* The scenario of C4 after its last set: the keys in the order of insertion.
ScenarioKeys == <<useSeq[capacity]>> \o SubSeq(useSeq, 1, capacity - 1) \o <<useSeq[capacity + 1]>>

\* C4 as stated, for every capacity C >= 1: after C distinct keys were set,
\* k1 was read and k(C+1) was set, k2 is evicted and k1 stays resident.
C4_Original_ReadFirstEvictsSecond ==
    (GetSetCaches /\ capacity >= 1 /\ phase = "setNext") =>
        /\ last.removed = {ScenarioKeys[2]}
        /\ MapHas(map, ScenarioKeys[1])

\* C4, amended: a set of a new key into a full cache of capacity C >= 1
\* evicts exactly the least recently used entry, a hit of get and a set
\* each counting as a use; setting C+1 distinct keys evicts exactly k1, and
\* for C >= 2, when k1 is read before k(C+1) is set, exactly k2 is evicted
\* and k1 stays resident (for C = 1 that read changes nothing: k1 is evicted).
C4_EvictsLeastRecentlyUsed ==
    [][ /\ (GetSetCaches /\ capacity >= 1 /\ last'.op = "set"
              /\ ~MapHas(map, last'.key) /\ Len(map) = capacity) =>
            /\ last'.removed = {LruKey(map, useSeq)}
            /\ MapKeys(map') = (MapKeys(map) \ {LruKey(map, useSeq)}) \cup {last'.key}
        /\ (GetSetCaches /\ capacity >= 1 /\ phase' = "filling"
              /\ Len(useSeq') = capacity + 1) =>
            last'.removed = {useSeq'[1]}
        /\ (GetSetCaches /\ capacity >= 2 /\ phase' = "setNext") =>
            /\ last'.removed = {useSeq'[1]}
            /\ MapHas(map', useSeq'[capacity])
        /\ (GetSetCaches /\ capacity = 1 /\ phase' = "setNext") =>
            last'.removed = {useSeq'[1]} ]_vars

C4_Witness ==
    /\ GetSetCaches
    /\ capacity >= 2
    /\ phase = "setNext"
    /\ last.removed = {useSeq[1]}

\* C5: after the n-th of a run of sets with pairwise distinct keys on an empty
\* cache of capacity C >= 1 (part_000, server.js) exactly min(C, n) entries are
\* resident: no set evicts before the cache is full, each set evicts one after.
C5_SizeIsMinCapacityDistinct ==
    (GetSetCaches /\ capacity >= 1 /\ phase = "filling") =>
        /\ Len(map) = Min(capacity, Cardinality(EverSet))
        /\ Cardinality(last.removed) = IF Cardinality(EverSet) > capacity THEN 1 ELSE 0

C5_Witness ==
    /\ GetSetCaches
    /\ phase = "filling"
    /\ capacity >= 1
    /\ Cardinality(EverSet) > capacity
    /\ Len(map) = capacity

\* C6: part_000: once the clock has passed t + ttl of the latest set of k,
\* every get(k), the first and each later one, returns absent and leaves k
\* not resident.
C6_ExpiryIsPermanent ==
    (WithExpiry /\ last.op = "get" /\ lastSet[last.key] # NoSet
       /\ now > lastSet[last.key].at + lastSet[last.key].ttl) =>
        /\ last.ret = Null
        /\ ~MapHas(map, last.key)

C6_Witness ==
    /\ WithExpiry
    /\ last.op = "get"
    /\ lastSet[last.key] # NoSet
    /\ now > lastSet[last.key].at + lastSet[last.key].ttl
    /\ last.removed = {}
    /\ \A k \in Keys \ {last.key} : lastSet[k] = NoSet

\* C7: a get that hits changes neither the size nor the resident keys, and a
\* second get of the same key right after it, the entry still fresh, returns
\* the same value and leaves size, resident keys and recency order unchanged.
C7_GetTwiceIsIdempotent ==
    [][ /\ (GetSetCaches /\ last'.op = "get" /\ last'.ret # Null) =>
            /\ Len(map') = Len(map)
            /\ MapKeys(map') = MapKeys(map)
        /\ (GetSetCaches /\ last.op = "get" /\ last.ret # Null
              /\ last'.op = "get" /\ last'.key = last.key
              /\ (WithExpiry /\ MapHas(map, last.key) =>
                    now' <= MapEntry(map, last.key).ts + MapEntry(map, last.key).ttl)) =>
            /\ last'.ret = last.ret
            /\ Len(map') = Len(map)
            /\ MapKeys(map') = MapKeys(map)
            /\ KeyOrder(map') = KeyOrder(map) ]_vars

C7_Witness ==
    /\ GetSetCaches
    /\ last.op = "get"
    /\ last.repeat
    /\ last.ret # Null
    /\ Len(map) >= 2

(***************************************************************************)
(* Claims about the tilers.                                                *)
(***************************************************************************)
ImageIsAtLeastOnePixel == image.width >= 1 /\ image.height >= 1

\* What a response carries of a tiler's result: the tiles, the list of tile
\* widths and the list of tile heights (part_000 sends no list of heights).
Response(t) ==
    IF t.out.threw
    THEN [success |-> FALSE]
    ELSE IF t.fn = "SplitIntoTiles"
    THEN [success |-> TRUE, tiles |-> t.out.Tiles,
          tileWidths |-> t.out.TileWidths, tileHeights |-> t.out.TileHeights]
    ELSE IF t.fn = "SvgToRgbaTilesFast"
    THEN [success |-> TRUE, tiles |-> t.out.base64Chunks,
          tileWidths |-> t.out.tileWidths, tileHeights |-> <<>>]
    ELSE [success |-> TRUE, tiles |-> t.out.tiles,
          tileWidths |-> t.out.tileWidths, tileHeights |-> t.out.tileHeights]

\* The number of pixel rows a tile of the given width holds.
RowsOfTile(tile, width) == (Len(FromBase64(tile)) \div BytesPerPixel) \div width

\* Where the tiles go when laid left to right, a new band begun when the
\* row is full: the top-left corner of each tile, from the returned widths
\* and heights taken per tile.
RECURSIVE Layout(_, _, _, _, _, _)
Layout(widths, heights, width, i, x, y) ==
    IF i > Len(widths) THEN <<>>
    ELSE <<[x |-> x, y |-> y, w |-> widths[i], h |-> heights[i]]>>
         \o (IF x + widths[i] >= width
             THEN Layout(widths, heights, width, i + 1, 0, y + heights[i])
             ELSE Layout(widths, heights, width, i + 1, x + widths[i], y))

NotReassembled == <<"not reassembled">>

\* The width x height buffer put together from a response, or NotReassembled
\* when there is no response, a list has no entry for some tile, a tile has
\* not the bytes of its dimensions or a pixel is covered by no tile.
Reassemble(r, width, height) ==
    IF ~r.success THEN NotReassembled
    ELSE IF Len(r.tileWidths) # Len(r.tiles) \/ Len(r.tileHeights) # Len(r.tiles)
    THEN NotReassembled
    ELSE LET at == Layout(r.tileWidths, r.tileHeights, width, 1, 0, 0)
             bytes == [i \in 1..Len(r.tiles) |-> FromBase64(r.tiles[i])]
             Covers(i, px, py) == /\ at[i].x <= px /\ px < at[i].x + at[i].w
                                  /\ at[i].y <= py /\ py < at[i].y + at[i].h
             Covered(px, py) == \E i \in 1..Len(at) : Covers(i, px, py)
             TileAt(px, py) == CHOOSE i \in 1..Len(at) : Covers(i, px, py)
         IN  IF \/ \E i \in 1..Len(at) : Len(bytes[i]) # at[i].w * at[i].h * BytesPerPixel
                \/ \E px \in 0..(width - 1), py \in 0..(height - 1) : ~Covered(px, py)
             THEN NotReassembled
             ELSE [b \in 1..(width * height * BytesPerPixel) |->
                     LET p == (b - 1) \div BytesPerPixel
                         c == (b - 1) % BytesPerPixel
                         px == p % width
                         py == p \div width
                         i == TileAt(px, py)
                     IN  bytes[i][((py - at[i].y) * at[i].w + (px - at[i].x)) * BytesPerPixel + c + 1]]

\* C8 as stated (the edge 1024 scaled to the edge the tilers are run with):
\* for every image of at least one pixel, every tile that SvgToRgbaTilesFast,
\* svgToRgbaTiles or TileRawRgba places in its result is at most the maximum
\* edge wide and at most the maximum edge high.
C8_EveryTileWithinMaxEdge ==
    (tiled.fn \in {"SvgToRgbaTilesFast", "svgToRgbaTiles", "TileRawRgba"}
       /\ ImageIsAtLeastOnePixel /\ Response(tiled).success) =>
        LET r == Response(tiled)
        IN  \A i \in 1..Len(r.tiles) :
                /\ r.tileWidths[i] <= tiled.edgeW
                /\ RowsOfTile(r.tiles[i], r.tileWidths[i]) <= tiled.edgeH

\* C9 as stated: for every image of at least one pixel and every maximum
\* edge, TileRawRgba, SplitIntoTiles and the loop of RenderLatexImage return
\* tiles that, laid out in emission order by the returned per-tile
\* dimensions, give back the original buffer byte for byte.
C9_ReassemblyReproducesBuffer ==
    (tiled.fn \in {"TileRawRgba", "SplitIntoTiles", "RenderLatexImage"}
       /\ ImageIsAtLeastOnePixel) =>
        Reassemble(Response(tiled), image.width, image.height) = Raw

\* The column and the band of the i-th tile of a row-major emission.
ColumnOf(i, width, edge) == (i - 1) % CeilDiv(width, edge)

BandOf(i, width, edge) == (i - 1) \div CeilDiv(width, edge)

\* The edge of the k-th (from 0) slice of an extent cut by edge: the edge,
\* or the remainder for the last slice.
SliceEdge(k, extent, edge) == IF (k + 1) * edge <= extent THEN edge ELSE extent - k * edge

\* The example of C10, for the tiler that ran: W = 1500, H = 2000, T = 1024.
\* (TileRawRgba's lists have one entry per rectangle of its double loop.)
TilerEdgeSizesExample(fn) ==
    LET widths == <<1024, 476, 1024, 476>>
        heights == <<1024, 1024, 976, 976>>
    IN  IF fn = "SplitIntoTiles"
        THEN LET out == SplitIntoTiles(<<>>, 1500, 2000, MAX_TILE)
             IN  /\ ~out.threw
                 /\ Len(out.Tiles) = 4
                 /\ out.TileWidths = widths
                 /\ out.TileHeights = heights
        ELSE /\ Len(GridRects(1500, 2000, MAX_TILE, MAX_TILE)) = 4
             /\ \A i \in 1..4 :
                  /\ TileRawRgba(<<>>, 1500, 2000, MAX_TILE, MAX_TILE).tileWidths[i] = widths[i]
                  /\ TileRawRgba(<<>>, 1500, 2000, MAX_TILE, MAX_TILE).tileHeights[i] = heights[i]

\* C10 as stated: for every image of at least one pixel, SplitIntoTiles and
\* TileRawRgba emit exactly ceil(W/T) * ceil(H/T) tiles in row-major order,
\* and tileWidths and tileHeights each hold one entry per emitted tile, in
\* emission order, equal to that tile's width and height (the edge, or the
\* remainder in the last column and band); W = 1500, H = 2000, T = 1024
\* gives widths [1024,476,1024,476] and heights [1024,1024,976,976].
C10_OneEntryPerTileRowMajor ==
    (tiled.fn \in {"SplitIntoTiles", "TileRawRgba"} /\ ImageIsAtLeastOnePixel) =>
        LET r == Response(tiled)
            W == image.width
            H == image.height
        IN  /\ r.success
            /\ Len(r.tiles) = CeilDiv(W, tiled.edgeW) * CeilDiv(H, tiled.edgeH)
            /\ Len(r.tileWidths) = Len(r.tiles)
            /\ Len(r.tileHeights) = Len(r.tiles)
            /\ \A i \in 1..Len(r.tiles) :
                 LET col == ColumnOf(i, W, tiled.edgeW)
                     band == BandOf(i, W, tiled.edgeW)
                     w == SliceEdge(col, W, tiled.edgeW)
                     h == SliceEdge(band, H, tiled.edgeH)
                 IN  /\ r.tileWidths[i] = w
                     /\ r.tileHeights[i] = h
                     /\ FromBase64(r.tiles[i])
                          = SharpExtractRaw(Raw, W, col * tiled.edgeW, band * tiled.edgeH, w, h)
            /\ TilerEdgeSizesExample(tiled.fn)

\* The tiles (by index) whose sub-rectangle holds the source pixel (px, py).
TilesHolding(rects, px, py) ==
    {i \in 1..Len(rects) : /\ rects[i].x <= px /\ px < rects[i].x + rects[i].w
                           /\ rects[i].y <= py /\ py < rects[i].y + rects[i].h}

\* C11: the tiles of TileRawRgba and of the copy loop of RenderLatexImage
\* partition the image: every source pixel lies in exactly one tile's
\* sub-rectangle and is found in that tile at its tile-local position, every
\* byte of a tile is the copy of a source byte of its own sub-rectangle, and
\* a tile holds exactly tileWidth * tileHeight * 4 bytes.
C11_TilesPartitionImage ==
    (tiled.fn \in {"TileRawRgba", "RenderLatexImage"}) =>
        LET out == tiled.out
            W == image.width
            H == image.height
            bytes == [i \in 1..Len(out.tiles) |-> FromBase64(out.tiles[i])]
        IN  /\ ~out.threw
            /\ Len(out.tiles) = Len(out.rects)
            /\ \A px \in 0..(W - 1), py \in 0..(H - 1) :
                 /\ Cardinality(TilesHolding(out.rects, px, py)) = 1
                 /\ \A i \in TilesHolding(out.rects, px, py), c \in 0..(BytesPerPixel - 1) :
                      bytes[i][((py - out.rects[i].y) * out.rects[i].w
                                  + (px - out.rects[i].x)) * BytesPerPixel + c + 1]
                        = Raw[(py * W + px) * BytesPerPixel + c + 1]
            /\ \A i \in 1..Len(out.tiles) :
                 LET r == out.rects[i]
                 IN  /\ out.tileWidths[i] = r.w
                     /\ r.w >= 1 /\ r.h >= 1
                     /\ r.x >= 0 /\ r.x + r.w <= W
                     /\ r.y >= 0 /\ r.y + r.h <= H
                     /\ Len(bytes[i]) = r.w * r.h * BytesPerPixel
                     /\ \A b \in 1..Len(bytes[i]) :
                          LET p == (b - 1) \div BytesPerPixel
                              c == (b - 1) % BytesPerPixel
                          IN  bytes[i][b]
                                = Raw[((r.y + (p \div r.w)) * W + r.x + (p % r.w)) * BytesPerPixel + c + 1]

C11_Witness ==
    /\ tiled.fn \in {"TileRawRgba", "RenderLatexImage"}
    /\ Len(tiled.out.tiles) >= 4
    /\ image.width % tiled.edgeW # 0
    /\ image.height % tiled.edgeH # 0

(***************************************************************************)
(* Claims about the render pipelines and the request handlers.             *)
(***************************************************************************)
\* The pipeline call of q has ended by returning a result of success.
Succeeded(q) ==
    /\ q.ret.how = "returned"
    /\ impl \in {"part_002", "part_005"} => q.ret.value.success

\* The pipeline call of q has ended in a failure, thrown or returned.
TerminalFailure(q) ==
    \/ q.ret.how = "threw"
    \/ /\ q.ret.how = "returned"
       /\ impl \in {"part_002", "part_005"}
       /\ ~q.ret.value.success

\* The tiles of a result of server.js, part_000 or part_005.
TilesOf(v) == IF impl = "part_000" THEN v.base64Chunks ELSE v.tiles

\* A result whose image has no pixel, or that has no tile.
EmptyRender(v) == v.width = 0 \/ v.height = 0 \/ Len(TilesOf(v)) = 0

\* C12: in server.js, part_000 and part_005 a rasterization whose image has
\* width 0 or height 0 is a failed attempt: no pipeline call returns a
\* success whose image has no pixel or no tile, and no such result is in the
\* cache or sent in a response of success.
C12_EmptyImageIsAFailure ==
    impl \in {"server", "part_000", "part_005"} =>
        /\ \A r \in Requests : Succeeded(reqs[r]) => ~EmptyRender(reqs[r].ret.value)
        /\ \A i \in 1..Len(map) : ~EmptyRender(map[i].value)
        /\ \A r \in Requests :
             (impl = "server" /\ reqs[r].resp.sent /\ reqs[r].resp.status = 200)
                 => ~EmptyRender(reqs[r].resp.body.result)

\* The programs whose pipeline is a loop of attempts.
LoopPipeline == impl \in {"server", "part_002", "part_005"}

\* The configured attempt count of the pipeline call of q.
AttemptCount(q) == IF impl = "part_002" THEN q.retries ELSE RenderAttempts

\* The rasterizer that fails at every density.
AlwaysFails == [d \in Densities |-> "fail"]

\* C13: in RenderWithRetries of server.js, renderLatex of part_002 and
\* RenderLatex of part_005, while the attempts fail the rasterizer has been
\* invoked once per attempt and at most N times (N the attempt count); a
\* call ends in a terminal failure only after exactly N invocations, and the
\* failure carries no tiles; every call ends, and against a rasterizer that
\* always fails it ends in a terminal failure after exactly N invocations.
C13_ExhaustionEndsInFailure ==
    /\ [](LoopPipeline =>
            \A r \in Requests :
              LET q == reqs[r]
              IN  /\ q.invoked <= AttemptCount(q)
                  /\ q.pc = "attempt" =>
                       /\ q.invoked = q.attempt - 1
                       /\ q.attempt <= AttemptCount(q)
                  /\ TerminalFailure(q) =>
                       /\ q.invoked = AttemptCount(q)
                       /\ \/ q.ret.how = "threw"
                          \/ DOMAIN q.ret.value = {"success", "error"})
    /\ \A r \in Requests :
         (LoopPipeline /\ reqs[r].pc = "attempt") ~> (reqs[r].ret.how # "none")
    /\ \A r \in Requests :
         (LoopPipeline /\ stub = AlwaysFails /\ reqs[r].pc = "attempt")
             ~> (/\ TerminalFailure(reqs[r])
                 /\ reqs[r].invoked = AttemptCount(reqs[r]))

\* A /render of part_002 has ended in failure after its four attempts.
C13_Witness ==
    \E r \in Requests :
        /\ impl = "part_002"
        /\ reqs[r].kind = "render"
        /\ TerminalFailure(reqs[r])
        /\ reqs[r].invoked = RenderRetries
        /\ stub = AlwaysFails

\* The rasterizer that fails at densities 4 and 2 and succeeds at density 1.
SucceedsAtOneOnly == [d \in Densities |-> IF d = 1 THEN "ok" ELSE "fail"]

\* C14: in server.js, against a rasterizer that fails at densities 4 and 2
\* and succeeds at density 1, the pipeline called with pixelDensity 4 (the
\* attempt count being 3) lowers the density attempt after attempt: its call
\* ends by returning a result whose pixelDensity is 1.
C14_DegradesToDensityOne ==
    \A r \in Requests :
        (/\ impl = "server"
         /\ stub = SucceedsAtOneOnly
         /\ reqs[r].density = 4
         /\ reqs[r].ret.how # "none")
            => /\ reqs[r].ret.how = "returned"
               /\ reqs[r].ret.value.pixelDensity = 1

\* C15: in RenderWithRetries of server.js, renderLatex of part_002 and
\* RenderLatex of part_005 a pipeline call never raises to its caller:
\* whatever the rasterizer does, a call that has ended has returned a value.
C15_PipelineNeverThrows ==
    LoopPipeline =>
        \A r \in Requests : reqs[r].ret.how # "none" => reqs[r].ret.how = "returned"

\* The error description a terminal failure carries.
ErrorCarried(q) == IF q.ret.how = "threw" THEN q.ret.error ELSE q.ret.value.error

PipelineStep(r) ==
    /\ reqs'[r] # reqs[r]
    /\ \/ reqs[r].pc \in {"attempt", "rasterized"}
       \/ impl = "part_002" /\ reqs[r].pc = "idle" /\ reqs'[r].calls = 1

\* The steps of the pipeline calls leave the cache as it was.
PipelineStepsKeepCache == \A r \in Requests : PipelineStep(r) => map' = map

\* C17: in server.js (RenderWithRetries, RenderLatex) and part_002
\* (renderLatex) no step of a pipeline call reads or modifies the cache: the
\* cache's keys, values and recency order are the same after the step as
\* before it.
C17_PipelineLeavesCacheAlone ==
    [][(impl \in {"server", "part_002"}) => PipelineStepsKeepCache]_vars

\* The pipeline run of q succeeded: it rasterized and tiled an image, which
\* is q.rendered.
RanToSuccess(q) == ~q.hit /\ (q.pc = "rasterized" \/ Succeeded(q))

\* Every cached value is the result of a pipeline run that succeeded, under
\* the key of that run.
CacheHoldsSuccessesOnly ==
    \A i \in 1..Len(map) :
        \E r \in Requests :
            /\ RanToSuccess(reqs[r])
            /\ map[i].key = KeyOf(reqs[r])
            /\ map[i].value = reqs[r].rendered

\* The response of a /render whose pipeline failed.
IsFailureResponse(resp) ==
    /\ resp.sent
    /\ resp.status = 500
    /\ "error" \in DOMAIN resp.body
    /\ impl # "part_000" => ~resp.body.success

\* A step of a request whose pipeline has failed (the step in which it
\* fails, the step of the handler after it) sets nothing in the cache, and
\* the handler of a /render answers with a failure.
FailureIsNotCached ==
    \A r \in Requests :
        (reqs'[r] # reqs[r] /\ TerminalFailure(reqs'[r])) =>
            /\ map' = map
            /\ (reqs'[r].pc = "done" /\ reqs'[r].kind = "render")
                   => IsFailureResponse(reqs'[r].resp)

\* C18: in server.js (/render, PrewarmCommon), part_000 (/render,
\* PrewarmCommon) and part_002 (renderLatex) the cache only ever holds
\* results of successful pipeline runs, and a request whose pipeline fails
\* performs no Cache.set and, if a /render, is answered with an explicit
\* failure response.
C18_CacheHoldsOnlySuccesses ==
    /\ [](impl \in {"server", "part_000", "part_002"} => CacheHoldsSuccessesOnly)
    /\ [][(impl \in {"server", "part_000", "part_002"}) => FailureIsNotCached]_vars

\* A /render whose pipeline failed has been answered while the cache holds
\* the result of another request.
C18_Witness ==
    \E r \in Requests :
        /\ impl = "server"
        /\ reqs[r].kind = "render"
        /\ reqs[r].pc = "done"
        /\ TerminalFailure(reqs[r])
        /\ Len(map) = 1

\* The key is resident in the cache and, in part_000, not past its expiry.
ResidentAndFresh(key) ==
    /\ MapHas(map, key)
    /\ impl = "part_000" => now <= MapEntry(map, key).ts + MapEntry(map, key).ttl

\* The result a response of success carries.
ResultSent(resp) == IF impl = "part_000" THEN resp.body ELSE resp.body.result

\* The handler of /render receives request r, with a latex, and calls
\* Cache.get: on a hit it answers with the cached value and the pipeline is
\* not called; on a miss it calls the pipeline.
LookUpDecides ==
    \A r \in Requests :
        (reqs[r].pc = "idle" /\ reqs'[r].kind = "render" /\ reqs'[r].latex # "") =>
            LET key == KeyOf(reqs'[r])
            IN  IF ResidentAndFresh(key)
                THEN /\ reqs'[r].pc = "done"
                     /\ reqs'[r].hit
                     /\ reqs'[r].calls = 0
                     /\ reqs'[r].invoked = 0
                     /\ reqs'[r].resp.sent
                     /\ reqs'[r].resp.status = 200
                     /\ ResultSent(reqs'[r].resp) = MapEntry(map, key).value
                ELSE /\ reqs'[r].pc = "attempt"
                     /\ ~reqs'[r].hit
                     /\ reqs'[r].calls = 1
                     /\ ~reqs'[r].resp.sent

\* The handler of /render answers request r after a pipeline call that
\* succeeded: the key then is in the cache with the result the response
\* carries, set in this step.
SetBeforeResponse ==
    \A r \in Requests :
        (reqs[r].pc = "returned" /\ reqs'[r].pc = "done" /\ reqs[r].kind = "render") =>
            LET key == KeyOf(reqs[r])
            IN  /\ reqs'[r].resp.sent
                /\ reqs'[r].resp.status = 200
                /\ ResultSent(reqs'[r].resp) = reqs[r].rendered
                /\ MapHas(map', key)
                /\ MapEntry(map', key).value = reqs[r].rendered
                /\ impl = "part_000" => MapEntry(map', key).ts = now

\* A request that hit never runs the pipeline; one that missed runs it once.
OnePipelineCallPerMiss ==
    \A r \in Requests :
        LET q == reqs[r]
        IN  q.kind = "render" =>
              /\ q.calls <= 1
              /\ q.hit => (q.calls = 0 /\ q.invoked = 0)
              /\ (q.pc = "done" /\ ~q.hit /\ q.latex # "") => (q.calls = 1 /\ q.invoked >= 1)

\* C19: for a /render of server.js and of part_000: if the key is resident
\* (and fresh) when the handler calls Cache.get, the cached result is
\* returned and the pipeline is not invoked for the request; on a miss the
\* pipeline is invoked exactly once and, if it succeeds, Cache.set for the key
\* is performed before the response is sent, so that a later request with
\* the key hits for as long as the entry is neither evicted nor expired.
C19_HitReturnsCachedMissRendersOnce ==
    /\ [](impl \in {"server", "part_000"} => OnePipelineCallPerMiss)
    /\ [][(impl \in {"server", "part_000"}) => (LookUpDecides /\ SetBeforeResponse)]_vars

\* A /render that missed has rendered, set and answered, and a later /render
\* with the same key has been answered from the cache.
C19_Witness ==
    \E r, h \in Requests :
        /\ impl \in {"server", "part_000"}
        /\ reqs[r].kind = "render" /\ Succeeded(reqs[r]) /\ reqs[r].order = 1
        /\ reqs[h].kind = "render" /\ reqs[h].hit /\ reqs[h].order = 2
        /\ KeyOf(reqs[h]) = KeyOf(reqs[r])
        /\ ResultSent(reqs[h].resp) = reqs[r].rendered

\* The entries of the cache under a key.
EntriesOf(key) == {i \in 1..Len(map) : map[i].key = key}

\* Requests r and s are two /render of one key that both missed, both ran
\* the pipeline to success and have both been answered.
BothMissedAndCompleted(r, s) ==
    /\ r # s
    /\ reqs[r].kind = "render" /\ reqs[s].kind = "render"
    /\ reqs[r].pc = "done" /\ reqs[s].pc = "done"
    /\ reqs[r].calls = 1 /\ reqs[s].calls = 1
    /\ Succeeded(reqs[r]) /\ Succeeded(reqs[s])
    /\ KeyOf(reqs[r]) = KeyOf(reqs[s])

\* C20: in server.js and part_000, whatever the interleaving of two /render
\* of the same key that both miss, both run the pipeline and both set; when
\* both have completed the cache holds exactly one entry for the key, whose
\* value is the result of the request that set last; at no time does the
\* cache hold a key twice or more entries than its capacity.
C20_LastSetWins ==
    impl \in {"server", "part_000"} =>
        /\ Len(map) <= capacity
        /\ \A i, j \in 1..Len(map) : map[i].key = map[j].key => i = j
        /\ \A r, s \in Requests :
             (BothMissedAndCompleted(r, s) /\ reqs[r].order < reqs[s].order) =>
                 /\ reqs[r].invoked >= 1 /\ reqs[s].invoked >= 1
                 /\ Cardinality(EntriesOf(KeyOf(reqs[s]))) = 1
                 /\ MapEntry(map, KeyOf(reqs[s])).value = reqs[s].rendered

\* Two /render of one key were in flight together, rendered different
\* images, and both have set and answered.
C20_Witness ==
    \E r, s \in Requests :
        /\ impl = "server"
        /\ BothMissedAndCompleted(r, s)
        /\ reqs[r].order < reqs[s].order
        /\ reqs[r].rendered # reqs[s].rendered
        /\ MapEntry(map, KeyOf(reqs[s])).value = reqs[s].rendered

\* Requests r and s, of different keys, have both rendered with success and
\* both completed (a /render has answered, a prewarm entry is done).
BothRenderedDifferentKeys(r, s) ==
    /\ r # s
    /\ reqs[r].pc = "done" /\ reqs[s].pc = "done"
    /\ reqs[r].calls = 1 /\ reqs[s].calls = 1
    /\ Succeeded(reqs[r]) /\ Succeeded(reqs[s])
    /\ KeyOf(reqs[r]) # KeyOf(reqs[s])

\* C21: in server.js and part_000 the cache operations run without a
\* suspension point, so that under every interleaving of two requests
\* (/render or prewarm) no update is lost: after two successful renders of
\* different keys with capacity >= 2 both keys are resident, each with the
\* result of its own request, and in every intermediate state the cache
\* holds no key twice and no more entries than its capacity.
C21_NoLostUpdate ==
    impl \in {"server", "part_000"} =>
        /\ Len(map) <= capacity
        /\ \A i, j \in 1..Len(map) : map[i].key = map[j].key => i = j
        /\ \A r, s \in Requests :
             (BothRenderedDifferentKeys(r, s) /\ capacity >= 2) =>
                 /\ MapHas(map, KeyOf(reqs[r]))
                 /\ MapHas(map, KeyOf(reqs[s]))
                 /\ MapEntry(map, KeyOf(reqs[r])).value = reqs[r].rendered
                 /\ MapEntry(map, KeyOf(reqs[s])).value = reqs[s].rendered

\* Two requests of different keys, one of them a prewarm, were in flight
\* together and both have set.
C21_Witness ==
    \E r, s \in Requests :
        /\ impl \in {"server", "part_000"}
        /\ capacity >= 2
        /\ BothRenderedDifferentKeys(r, s)
        /\ reqs[r].kind = "prewarm" /\ reqs[s].kind = "render"
        /\ Len(map) = 2

(***************************************************************************)
(* Claims about the keys.                                                  *)
(***************************************************************************)
\* C22: in server.js and part_000, for every request body the handlers
\* accept, two requests have the same cache key if and only if their latex,
\* fontSize and pixelDensity are all equal, and a request answered with a
\* result is answered with one rendered for its own latex, fontSize and
\* pixelDensity.
C22_SameKeyIffSameFields ==
    /\ \A r, s \in Requests :
         (reqs[r].pc # "idle" /\ reqs[s].pc # "idle") =>
             (reqs[r].key = reqs[s].key <=> reqs[r].fields = reqs[s].fields)
    /\ \A r \in Requests :
         (reqs[r].pc = "done" /\ reqs[r].resp.status = 200) =>
             reqs[r].resp.body.renderedFor = reqs[r].fields

\* The number of tiles the tiling of a result's image has: one per column
\* in part_000, one per column and band in server.js and part_002.
TileCount(v) ==
    IF impl = "part_000" THEN Len(ForSteps(0, v.width, TileEdge))
    ELSE Len(GridRects(v.width, v.height, TileEdge, TileEdge))

\* A result that carries every tile of its image.
AllTiles(v) == Len(TilesOf(v)) = TileCount(v)

\* The message of an attempt that failed in the extraction of a tile.
ExtractionFailed(q) == q.thrown = "extract_area: bad extract area"

\* C23: in server.js, part_000 and part_002 a render result is all or
\* nothing: every result a pipeline run has produced, every cached value and
\* every result sent in a response of success carries all the tiles of its
\* image, also when the extraction of a tile failed partway in some attempt.
C23_AllTilesOrFailure ==
    impl \in {"server", "part_000", "part_002"} =>
        /\ \A r \in Requests :
               /\ RanToSuccess(reqs[r]) => AllTiles(reqs[r].rendered)
               /\ (reqs[r].pc = "done" /\ reqs[r].kind = "render"
                     /\ reqs[r].resp.status = 200)
                      => AllTiles(ResultSent(reqs[r].resp))
        /\ \A i \in 1..Len(map) : AllTiles(map[i].value)

\* A pipeline run has ended in a failure whose last attempt broke in the
\* extraction of a tile, the cache being empty, while another request has
\* been answered with both tiles of the wide image.
C23_Witness ==
    /\ impl \in {"server", "part_000", "part_002"}
    /\ \E r, s \in Requests :
          /\ reqs[r].pc = "done"
          /\ reqs[r].kind = "render"
          /\ ~reqs[r].hit
          /\ TerminalFailure(reqs[r])
          /\ ExtractionFailed(reqs[r])
          /\ reqs[s].pc = "done"
          /\ reqs[s].kind = "render"
          /\ reqs[s].resp.status = 200
          /\ Len(TilesOf(ResultSent(reqs[s].resp))) = 2

\* ------------------------------------------------------------------
\* Claims about the capacity and the time-to-live of the caches
\* ------------------------------------------------------------------

\* C24: in part_000 and server.js the construction of a cache with a
\* capacity below 1 fails, so that no cache of capacity below 1 ever serves
\* a get or a set.
C24_NoCacheBelowCapacityOne ==
    (impl \in {"part_000", "server"} /\ last.op \in {"get", "set"}) => capacity >= 1

\* C25: in part_000 and server.js a cache of capacity 0 retains nothing:
\* after every set the Map is empty and every get returns absent.
C25_CapacityZeroRetainsNothing ==
    (impl \in {"part_000", "server"} /\ capacity = 0) =>
        /\ last.op = "set" => map = <<>>
        /\ last.op = "get" => last.ret = Null

\* C26: the caches of server.js and part_002 enforce a time-to-live: a get
\* never returns an entry at or after the time of its set plus the ttl.
C26_EntriesExpire ==
    (impl \in {"server", "part_002"} /\ last.op = "get" /\ last.ret # Null) =>
        now < lastSet[last.key].at + Ttl

\* ------------------------------------------------------------------
\* Claims about the waits between attempts
\* ------------------------------------------------------------------

\* The call has ended in a failure, thrown or returned.
CallFailed(q) ==
    /\ q.pc = "ended"
    /\ \/ q.ret.how = "threw"
       \/ q.ret.how = "returned" /\ ~q.ret.value.success

\* C27: in the loops of server.js (RenderWithRetries, 150 ms), part_002 and
\* part_003 (renderLatex, 120 ms) the wait set after failed attempt k, k
\* below the number of attempts, is the base delay times k; attempt k + 1
\* never starts before the failure of attempt k plus that wait; and the
\* failure of the last attempt ends the call at once, with no timer set.
C27_LinearBackoffBetweenAttempts ==
    impl \in RetryLoops =>
        LET base == IF impl = "server" THEN BackoffDelay ELSE RenderLatexDelay
        IN  /\ reqs.pc = "waiting" =>
                   /\ reqs.attempt < reqs.limit
                   /\ reqs.wake = reqs.failedAt + base * reqs.attempt
            /\ reqs.attempt >= 2 =>
                   reqs.startedAt >= reqs.waitedFrom + base * (reqs.attempt - 1)
            /\ CallFailed(reqs) =>
                   /\ reqs.thrownAt = reqs.limit
                   /\ reqs.wake = NoTimer
                   /\ reqs.endedAt = reqs.failedAt

\* A loop has failed all its attempts and ended at the time of the last
\* failure, its last attempt having started after the wait of the attempt
\* before it, the timer having fired late.
C27_Witness ==
    /\ impl \in RetryLoops
    /\ CallFailed(reqs)
    /\ reqs.invoked = reqs.limit
    /\ reqs.limit >= 3
    /\ reqs.startedAt > reqs.waitedFrom + BaseDelay(impl) * (reqs.limit - 1)
    /\ reqs.endedAt = reqs.failedAt

\* C28: in RenderLatexToSvg and ConvertSvgToPng of server.js a failed
\* attempt with Attempt < 3 is followed, not before Attempt * 200 ms have
\* passed, by the invocation with Attempt + 1; the function is invoked at
\* most 3 times, and when it throws it has been invoked 3 times and the
\* error thrown, the one /render answers with, is the error of the third
\* attempt.
C28_RecursionRetriesThreeTimes ==
    impl \in RetryRecursions =>
        /\ reqs.invoked <= RecursionAttempts
        /\ reqs.pc = "waiting" =>
               /\ reqs.attempt < RecursionAttempts
               /\ reqs.wake = reqs.failedAt + reqs.attempt * RecursionDelay
        /\ reqs.attempt >= 2 =>
               reqs.startedAt >= reqs.waitedFrom + (reqs.attempt - 1) * RecursionDelay
        /\ CallFailed(reqs) =>
               /\ reqs.invoked = RecursionAttempts
               /\ reqs.thrownAt = RecursionAttempts
               /\ reqs.ret.error = reqs.thrown
               /\ reqs.resp = RenderCatch(reqs.thrown)

\* ------------------------------------------------------------------
\* Claims about the effect of single calls on the cache
\* ------------------------------------------------------------------

\* The step is a get of a key the Map does not hold.
GetOfAbsentKey == last'.op = "get" /\ ~MapHas(map, last'.key)

\* The get of an absent key returns null and leaves the Map, with its
\* order, and the capacity as they were.
GetOfAbsentKeyChangesNothing ==
    GetOfAbsentKey => (last'.ret = Null /\ map' = map /\ capacity' = capacity)

\* C29: in part_000 and server.js a get of a key that is not resident
\* returns absent and has no effect on the cache.
C29_MissHasNoEffect ==
    [][(impl \in {"part_000", "server"}) => GetOfAbsentKeyChangesNothing]_vars

\* A get of a key never set has returned null from a cache that holds
\* other entries.
C29_Witness ==
    /\ impl \in {"part_000", "server"}
    /\ last.op = "get"
    /\ last.ret = Null
    /\ lastSet[last.key] = NoSet
    /\ ~MapHas(map, last.key)
    /\ Len(map) >= 2

\* The step is a set of a key the Map holds.
SetOfResidentKey == last'.op = "set" /\ MapHas(map, last'.key)

\* The set of a resident key leaves the key with the value (and in
\* part_000 the time and ttl) of this set, last in the order of the Map;
\* the size is the same and the other entries are as they were, in the
\* order they were.
SetOfResidentKeyReplaces ==
    SetOfResidentKey =>
        LET k == last'.key
        IN  /\ MapHas(map', k)
            /\ MapEntry(map', k).value = lastSet'[k].value
            /\ map'[Len(map')].key = k
            /\ impl = "part_000" =>
                   /\ MapEntry(map', k).ts = now'
                   /\ MapEntry(map', k).ttl = lastSet'[k].ttl
            /\ Len(map') = Len(map)
            /\ MapDelete(map', k) = MapDelete(map, k)
            /\ last'.removed = {}

\* C30: in part_000 and server.js a set of a resident key replaces its
\* value, makes it the most recently used and (part_000) restarts its
\* time-to-live; the size does not change and no other entry is evicted or
\* moved.
C30_SetOfResidentKeyReplaces ==
    [][(impl \in {"part_000", "server"}) => SetOfResidentKeyReplaces]_vars

\* A key that was resident has been set again, to the value v2: it is the
\* newer of the two entries of the Map.
C30_Witness ==
    /\ impl \in {"part_000", "server"}
    /\ last.op = "set"
    /\ last.resident
    /\ Len(map) = 2
    /\ map[2].key = last.key
    /\ map[2].value = "v2"
    /\ map[1].value = "v1"

\* ------------------------------------------------------------------
\* Claims about expiry and occupancy in part_000
\* ------------------------------------------------------------------

\* Every resident entry carries the time and the ttl of the latest set of
\* its key.
EntriesKeepTimeOfSet ==
    \A i \in 1..Len(map) :
        /\ map[i].ts = lastSet[map[i].key].at
        /\ map[i].ttl = lastSet[map[i].key].ttl

\* A get that hits leaves the time and the ttl of the entry as they were.
HitKeepsTimeOfSet ==
    (last'.op = "get" /\ last'.ret # Null) =>
        /\ MapEntry(map', last'.key).ts = MapEntry(map, last'.key).ts
        /\ MapEntry(map', last'.key).ttl = MapEntry(map, last'.key).ttl

\* C31: part_000: a get that hits does not extend the life of its entry:
\* the entry keeps the time of its set, so a get returns a value only up to
\* that time plus the ttl however many gets hit before, and only a set
\* gives the entry a new time.
C31_HitDoesNotExtendLife ==
    /\ [](WithExpiry =>
            /\ EntriesKeepTimeOfSet
            /\ (last.op = "get" /\ last.ret # Null) =>
                   now <= lastSet[last.key].at + lastSet[last.key].ttl)
    /\ [][WithExpiry => HitKeepsTimeOfSet]_vars

\* A get has hit an entry set at an earlier time, which is now the most
\* recently used and still carries the time of its set.
C31_Witness ==
    /\ WithExpiry
    /\ last.op = "get"
    /\ last.ret # Null
    /\ Len(map) = 2
    /\ map[2].key = last.key
    /\ map[2].ts < now
    /\ map[2].ts < map[1].ts

\* The entry has expired at time t.
Expired(e, t) == e.ts + e.ttl < t

\* The number of entries a set of key k has to evict.
Overflow(m, k) ==
    LET others == Len(MapDelete(m, k)) + 1
    IN  IF others > capacity THEN others - capacity ELSE 0

\* A set removes the entries first in the order of use, as many as exceed
\* the capacity, and no other, whatever has expired: the entries it leaves
\* are those after them, in their order, and the entry it wrote.
SetEvictsByOrderOnly ==
    last'.op = "set" =>
        LET others == MapDelete(map, last'.key)
            n == Overflow(map, last'.key)
        IN  /\ Len(map') = Len(others) + 1 - n
            /\ \A i \in 1..(Len(map') - 1) : map'[i] = others[n + i]
            /\ Len(map') >= 1 => map'[Len(map')].key = last'.key

\* An entry leaves the Map only by a get or a delete of its key or by the
\* eviction of a set.
EntriesLeaveByCallOnly ==
    \A k \in MapKeys(map) \ MapKeys(map') :
        \/ last'.op \in {"get", "delete"} /\ last'.key = k
        \/ last'.op = "set"

\* C32: part_000: expiry frees no capacity.  A set removes entries by the
\* order of use only, never because they have expired; an expired entry
\* stays in the Map, and counts in its size, until a get or delete of its
\* key, a set of its key or an eviction removes it.
C32_ExpiryFreesNoCapacity ==
    [][WithExpiry => (SetEvictsByOrderOnly /\ EntriesLeaveByCallOnly)]_vars

\* A set into a full cache has evicted an entry that was fresh, while an
\* entry used after it, and expired, is still resident.
C32_Witness ==
    /\ WithExpiry
    /\ last.op = "set"
    /\ capacity = 2
    /\ Len(map) = 2
    /\ Expired(map[1], now)
    /\ \E k \in last.removed :
           /\ k # last.key
           /\ ~Expired([ts |-> lastSet[k].at, ttl |-> lastSet[k].ttl], now)

\* ------------------------------------------------------------------
\* Claims about termination
\* ------------------------------------------------------------------

\* C33: every call of RenderWithRetries of server.js and of renderLatex of
\* part_002 ends, in a result or a terminal failure, also when an
\* invocation of the rasterizer never completes: the attempt is given up at
\* a deadline and counted as failed.
C33_EveryCallReturns ==
    (impl \in {"server", "part_002"} /\ reqs.pc = "attempt") ~> (reqs.pc = "ended")

\* ------------------------------------------------------------------
\* Claims about the lists of tile sizes
\* ------------------------------------------------------------------

\* The lists of widths and heights index the n tiles one way or the other:
\* one entry each per tile, or one width per column and one height per band.
ConsistentIndexing(tileWidths, tileHeights, n) ==
    \/ Len(tileWidths) = n /\ Len(tileHeights) = n
    \/ Len(tileWidths) * Len(tileHeights) = n

\* RenderLatex of server.js applied to the image of the state.
RenderLatexOfImage ==
    RenderLatex([ok |-> TRUE, image |-> image, failAt |-> 0], DefaultPixelDensity)

\* C34: for every image of at least one pixel, the lists tileWidths and
\* tileHeights of a success result of RenderLatexImage (part_003), of
\* SplitIntoTiles and of RenderLatex (server.js) have one entry per tile
\* each, or one per column and one per band.
C34_TileSizeListsIndexTheTiles ==
    (image.width >= 1 /\ image.height >= 1) =>
        /\ (tiled.fn = "RenderLatexImage" /\ ~tiled.out.threw) =>
               ConsistentIndexing(tiled.out.tileWidths, tiled.out.tileHeights,
                                  Len(tiled.out.tiles))
        /\ (tiled.fn = "SplitIntoTiles" /\ ~tiled.out.threw) =>
               ConsistentIndexing(tiled.out.TileWidths, tiled.out.TileHeights,
                                  Len(tiled.out.Tiles))
        /\ ~RenderLatexOfImage.threw =>
               ConsistentIndexing(RenderLatexOfImage.tileWidths,
                                  RenderLatexOfImage.tileHeights,
                                  Len(RenderLatexOfImage.tiles))

\* ------------------------------------------------------------------
\* Claims about the first /render handler of server.js
\* ------------------------------------------------------------------

\* C35: in the first /render handler of server.js, when RenderLatexToSvg
\* and ConvertSvgToPng succeed with an image of at least one pixel the
\* response is a success with ceil(Width / edge) * ceil(Height / edge)
\* tiles, and the response is a failure only when one of the two failed.
C35_RenderSucceedsWhenRasterized ==
    tiled.fn = "/render" =>
        /\ (~tiled.svg.threw /\ ~tiled.png.threw
              /\ image.width >= 1 /\ image.height >= 1) =>
               /\ tiled.out.success
               /\ Len(tiled.out.tiles)
                    = CeilDiv(image.width, TileEdge) * CeilDiv(image.height, TileEdge)
        /\ ~tiled.out.success => (tiled.svg.threw \/ tiled.png.threw)

(***************************************************************************)
(* The initialization of MathJax and its callers: server.js (MathJax.init  *)
(* at load, MathJaxInstance set by its .then, PrewarmCommon started by the *)
(* listen callback, the /render readiness check), part_005                 *)
(* (InitializeMathJax called by every /render) and part_000 (InitMathJax   *)
(* called by the startup block, LatexToSvg and PrewarmCommon).             *)
(* reqs holds MathJaxInstance, MathJaxInitPromise, the promises            *)
(* MathJax.init has returned so far, in the order of its invocations, and  *)
(* the callers; of a caller, pc, entry and attempt are of the code,        *)
(* awaits (the promise its latest call for the initialization gave it),    *)
(* unset and ready (the render attempts it ran without and with a          *)
(* MathJaxInstance) are history.                                           *)
(***************************************************************************)
StartupPrograms == {"server", "part_005", "part_000"}

\* let MathJaxInitPromise = null: no promise.
NoPromise == 0

\* let MathJaxInstance: not set.  Once set, MathJaxInstance is noted as the
\* promise whose value it holds.
NoInstance == 0

\* The formulas the listen callback of server.js hands to PrewarmCommon.
PrewarmFormulas == 2

\* What a promise of MathJax.init and a promise of the render pipeline
\* settle to.
Settlements == {"resolved", "rejected"}

\* The callers of each program: the prewarm run and /render requests.
StartupCallers(program) ==
    IF program = "server" THEN {"prewarm", "r1"}
    ELSE IF program = "part_005" THEN {"r1", "r2"}
    ELSE {"startup", "prewarm", "r1", "r2"}

NewCaller ==
    [pc |-> "idle", awaits |-> NoPromise, entry |-> 1, attempt |-> 1,
     unset |-> 0, ready |-> 0, resp |-> NoResponse]

\* MathJax.init(...): one more invocation, and its promise.
MathJaxInit(s) ==
    [state |-> [s EXCEPT !.promises = Append(@, "pending")],
     awaits |-> Len(s.promises) + 1]

\* part_005 InitializeMathJax up to its await: mathjax.init is invoked
\* when MathJaxInstance is not set yet.
InitializeMathJax(s) ==
    IF s.MathJaxInstance = NoInstance THEN MathJaxInit(s)
    ELSE [state |-> s, awaits |-> NoPromise]

\* InitMathJax without its check: MathJax.init at every call, the newest
\* promise kept.
InitMathJax_perCall(s) ==
    LET i == MathJaxInit(s)
    IN  [state |-> [i.state EXCEPT !.MathJaxInitPromise = i.awaits],
         awaits |-> i.awaits]

\* part_000 InitMathJax: the promise of the first call is kept in
\* MathJaxInitPromise and returned by every later call.
InitMathJax(s) ==
    IF s.MathJaxInitPromise = NoPromise
    THEN LET i == MathJaxInit(s)
         IN  [state |-> [i.state EXCEPT !.MathJaxInitPromise = i.awaits],
              awaits |-> i.awaits]
    ELSE [state |-> s, awaits |-> s.MathJaxInitPromise]

\* The programs as their module-level code leaves them.  server.js has
\* invoked MathJax.init and attached its .then; part_000 has run its startup
\* block up to await InitMathJax(); part_005 has invoked nothing.
Loaded(program) ==
    LET s == [MathJaxInstance |-> NoInstance, MathJaxInitPromise |-> NoPromise,
              promises |-> <<>>,
              callers |-> [c \in StartupCallers(program) |-> NewCaller]]
    IN  IF program = "server" THEN MathJaxInit(s).state
        ELSE IF program = "part_000"
        THEN LET i == InitMathJax(s)
             IN  [i.state EXCEPT !.callers["startup"].pc = "init",
                                 !.callers["startup"].awaits = i.awaits]
        ELSE s

StartupInit ==
    /\ impl \in StartupPrograms
    /\ capacity = 1
    /\ map = <<>>
    /\ now = 0
    /\ last = [op |-> "new", key |-> Null, ret |-> Null, removed |-> {}, repeat |-> FALSE,
               resident |-> FALSE]
    /\ lastSet = [k \in Keys |-> NoSet]
    /\ useSeq = <<>>
    /\ phase = "filling"
    /\ image = [width |-> 0, height |-> 0, seed |-> 0]
    /\ tiled = [fn |-> "none"]
    /\ reqs = Loaded(impl)
    /\ stub = <<>>

startupFrame == <<impl, capacity, map, now, last, lastSet, useSeq, phase, image, tiled, stub>>

\* server.js PrewarmCommon from the attempt q names on, up to its next
\* await.  RenderLatex begins with MathJaxInstance.tex2svgPromise(...): a
\* TypeError while MathJaxInstance is undefined, which RenderWithRetries
\* takes as a failed attempt (a wait follows, or after the last attempt the
\* next formula).  The two formulas have different keys and nothing else
\* fills the cache at startup, so RenderCache.Get misses.
RECURSIVE PrewarmFrom(_, _)
PrewarmFrom(q, instance) ==
    IF q.entry > PrewarmFormulas THEN [q EXCEPT !.pc = "done"]
    ELSE IF instance # NoInstance THEN [q EXCEPT !.pc = "rendering", !.ready = @ + 1]
    ELSE IF q.attempt < RenderAttempts
    THEN [q EXCEPT !.pc = "backoff", !.unset = @ + 1]
    ELSE PrewarmFrom([q EXCEPT !.entry = @ + 1, !.attempt = 1, !.unset = @ + 1],
                     instance)

\* The next formula of the list.
NextFormula(q) == [q EXCEPT !.entry = @ + 1, !.attempt = 1]

\* server.js App.listen callback: PrewarmCommon([...]) is started, and runs
\* to its first await.
ListenCallback ==
    /\ impl = "server"
    /\ reqs.callers["prewarm"].pc = "idle"
    /\ reqs' = [reqs EXCEPT !.callers["prewarm"] = PrewarmFrom(@, reqs.MathJaxInstance)]
    /\ UNCHANGED startupFrame

\* server.js RenderWithRetries: the timer of the wait fires, the next
\* attempt runs.
BackoffEnds ==
    /\ impl = "server"
    /\ reqs.callers["prewarm"].pc = "backoff"
    /\ reqs' = [reqs EXCEPT !.callers["prewarm"] =
                   PrewarmFrom([@ EXCEPT !.attempt = @ + 1], reqs.MathJaxInstance)]
    /\ UNCHANGED startupFrame

\* The caller after its await of the initialization promise p, settled to
\* how.  part_005: InitializeMathJax returns and /render goes on to
\* RenderLatex, or the rejection reaches the catch block of /render.
\* part_000: the startup block logs; LatexToSvg goes on to the rasterizer;
\* PrewarmCommon enters its loop; a rejection reaches the caller's catch
\* block.
AfterInit(program, c, q, how) ==
    IF how = "rejected"
    THEN [q EXCEPT !.pc = "done",
                   !.resp = IF c \in {"startup", "prewarm"} THEN NoResponse
                            ELSE IF program = "part_005"
                            THEN Json(200, [success |-> FALSE, error |-> "ServerError"])
                            ELSE Json(500, [error |-> "init"])]
    ELSE IF c = "startup" THEN [q EXCEPT !.pc = "done"]
    ELSE IF c = "prewarm" /\ q.pc = "init" /\ q.entry = 0
    THEN [q EXCEPT !.pc = "entry", !.entry = 1]
    ELSE [q EXCEPT !.pc = "rendering", !.ready = @ + 1]

\* The promise p of MathJax.init settles and its reactions run: the .then
\* of server.js sets MathJaxInstance (its .catch logs); the assignment of
\* part_005 InitializeMathJax sets it; every caller awaiting p goes on.
InitSettles(p, how) ==
    /\ p \in DOMAIN reqs.promises
    /\ reqs.promises[p] = "pending"
    /\ reqs' = [reqs EXCEPT
           !.promises[p] = how,
           !.MathJaxInstance =
               IF how = "resolved"
                  /\ \/ impl = "server"
                     \/ impl = "part_005"
                        /\ \E c \in DOMAIN reqs.callers :
                              reqs.callers[c].pc = "init" /\ reqs.callers[c].awaits = p
               THEN p ELSE @,
           !.callers = [c \in DOMAIN @ |->
               IF @[c].pc = "init" /\ @[c].awaits = p
               THEN AfterInit(impl, c, @[c], how) ELSE @[c]]]
    /\ UNCHANGED startupFrame

\* A caller that has the promise p of the initialization and awaits it: it
\* waits while p is pending and goes on at once when p has settled.
Awaiting(program, s, c, p) ==
    LET q == [s.callers[c] EXCEPT !.pc = "init", !.awaits = p]
    IN  IF s.promises[p] = "pending" THEN q
        ELSE AfterInit(program, c, q, s.promises[p])

\* A /render request arrives.  server.js: the readiness check, then the
\* pipeline.  part_005: await InitializeMathJax().  part_000: the cache
\* misses and LatexToSvg awaits InitMathJax().
RenderRequest(r) ==
    /\ r \in DOMAIN reqs.callers
    /\ r \notin {"startup", "prewarm"}
    /\ reqs.callers[r].pc = "idle"
    /\ reqs' =
         IF impl = "server"
         THEN [reqs EXCEPT !.callers[r] =
                  IF reqs.MathJaxInstance = NoInstance
                  THEN [@ EXCEPT !.pc = "done",
                          !.resp = Json(400, [success |-> FALSE,
                                     error |-> "Invalid request or MathJax not ready."])]
                  ELSE [@ EXCEPT !.pc = "rendering", !.ready = @ + 1]]
         ELSE IF impl = "part_005"
         THEN LET i == InitializeMathJax(reqs)
              IN  IF i.awaits = NoPromise
                  THEN [reqs EXCEPT !.callers[r].pc = "rendering",
                                    !.callers[r].ready = @ + 1]
                  ELSE [i.state EXCEPT !.callers[r] = Awaiting(impl, i.state, r, i.awaits)]
         ELSE LET i == InitMathJax(reqs)
              IN  [i.state EXCEPT !.callers[r] = Awaiting(impl, i.state, r, i.awaits)]
    /\ UNCHANGED startupFrame

\* part_000 PrewarmCommon(commonList) is called: await InitMathJax().
PrewarmCommonCall ==
    /\ impl = "part_000"
    /\ reqs.callers["prewarm"].pc = "idle"
    /\ LET i == InitMathJax(reqs)
           s == [i.state EXCEPT !.callers["prewarm"].entry = 0]
       IN  reqs' = [s EXCEPT !.callers["prewarm"] = Awaiting(impl, s, "prewarm", i.awaits)]
    /\ UNCHANGED startupFrame

\* part_000 PrewarmCommon, one entry of the list: await LatexToSvg(...),
\* which awaits InitMathJax() again.
PrewarmEntry ==
    /\ impl = "part_000"
    /\ reqs.callers["prewarm"].pc = "entry"
    /\ LET i == InitMathJax(reqs)
       IN  reqs' = [i.state EXCEPT !.callers["prewarm"] =
                      Awaiting(impl, i.state, "prewarm", i.awaits)]
    /\ UNCHANGED startupFrame

\* The render pipeline a caller awaits settles.  A request is answered.
\* server.js PrewarmCommon stores the result and goes to the next formula,
\* or RenderWithRetries takes the failure (a wait, or after the last
\* attempt the next formula).  part_000 PrewarmCommon goes to the next
\* entry either way.
PipelineSettles(c, how) ==
    /\ c \in DOMAIN reqs.callers
    /\ reqs.callers[c].pc = "rendering"
    /\ reqs' = [reqs EXCEPT !.callers[c] =
           IF c # "prewarm"
           THEN [@ EXCEPT !.pc = "done",
                          !.resp = IF how = "resolved"
                                   THEN Json(200, [success |-> TRUE])
                                   ELSE IF impl = "part_000"
                                   THEN Json(500, [error |-> "render"])
                                   ELSE IF impl = "part_005"
                                   THEN Json(200, [success |-> FALSE, error |-> "RenderFailed"])
                                   ELSE Json(500, [success |-> FALSE])]
           ELSE IF impl = "server"
           THEN IF how = "rejected" /\ @.attempt < RenderAttempts
                THEN [@ EXCEPT !.pc = "backoff"]
                ELSE PrewarmFrom(NextFormula(@), reqs.MathJaxInstance)
           ELSE IF @.entry < PrewarmFormulas
                THEN [@ EXCEPT !.pc = "entry", !.entry = @ + 1]
                ELSE [@ EXCEPT !.pc = "done"]]
    /\ UNCHANGED startupFrame

StartupNext ==
    \/ ListenCallback
    \/ BackoffEnds
    \/ \E p \in 1..4, how \in Settlements : InitSettles(p, how)
    \/ \E r \in {"r1", "r2"} : RenderRequest(r)
    \/ PrewarmCommonCall
    \/ PrewarmEntry
    \/ \E c \in {"prewarm", "r1", "r2"}, how \in Settlements : PipelineSettles(c, how)

SpecStartup == StartupInit /\ [][StartupNext]_vars

\* ------------------------------------------------------------------
\* Claims about the initialization of MathJax
\* ------------------------------------------------------------------

\* C36: in server.js, PrewarmCommon never runs a render attempt while
\* MathJaxInstance is still unset: in every order of the resolution of
\* MathJax.init and the listen callback, each attempt of the prewarm run
\* finds MathJaxInstance set.
C36_PrewarmRunsInitialized ==
    impl = "server" => reqs.callers["prewarm"].unset = 0

\* C37: in part_005, mathjax.init is invoked at most once, also when
\* several /render requests call InitializeMathJax before the first
\* initialization has completed.
C37_InitInvokedOnce ==
    impl = "part_005" => Len(reqs.promises) <= 1

\* C38: in part_000, whatever the number and the order of the calls of the
\* startup block, of /render through LatexToSvg and of PrewarmCommon,
\* MathJax.init is invoked at most once and every caller awaits the same
\* promise, the one kept in MathJaxInitPromise.
C38_OneInitOnePromise ==
    impl = "part_000" =>
        /\ Len(reqs.promises) <= 1
        /\ \A c \in DOMAIN reqs.callers :
               reqs.callers[c].awaits # NoPromise =>
                   reqs.callers[c].awaits = reqs.MathJaxInitPromise

\* The startup block, two /render requests and PrewarmCommon all await the
\* initialization while it is pending.
C38_Witness ==
    /\ impl = "part_000"
    /\ Len(reqs.promises) = 1
    /\ reqs.promises[1] = "pending"
    /\ \A c \in {"startup", "prewarm", "r1", "r2"} :
           reqs.callers[c].pc = "init" /\ reqs.callers[c].awaits = 1

(***************************************************************************)
(* The cache-only endpoint /renderFast of server.js and part_000, beside   *)
(* /render: three requests, each a /render or a /renderFast, of a server   *)
(* whose rasterizer answers.                                               *)
(***************************************************************************)
FastPrograms == {"server", "part_000"}

FastRequests == {"r1", "r2", "r3"}

\* The rasterizer answers at every density.
FastStub == [d \in Densities |-> "ok"]

\* The request completing now is the next in the order of completion.
FastOrder == 1 + Cardinality({r \in FastRequests : reqs[r].pc = "done"})

FastInit ==
    /\ impl \in FastPrograms
    /\ capacity \in ServerCapacities
    /\ map = <<>>
    /\ now = 0
    /\ last = [op |-> "new", key |-> Null, ret |-> Null, removed |-> {}, repeat |-> FALSE,
               resident |-> FALSE]
    /\ lastSet = [k \in Keys |-> NoSet]
    /\ useSeq = <<>>
    /\ phase = "filling"
    /\ image = [width |-> 0, height |-> 0, seed |-> 0]
    /\ tiled = [fn |-> "none"]
    /\ reqs = [r \in FastRequests |-> NewRequest]
    /\ stub = FastStub

\* res.json of /renderFast: { hit: true, result } or { hit: false }.
FastAnswer(found, result) ==
    IF found THEN Json(200, [hit |-> TRUE, result |-> result])
    ELSE Json(200, [hit |-> FALSE])

\* /renderFast of server.js, were a miss to go on to RenderWithRetries as
\* the miss of /render does.
SrvRenderFast_renders(r, latex, d) ==
    /\ impl = "server"
    /\ reqs[r].pc = "idle"
    /\ LET q == [reqs[r] EXCEPT !.kind = "fast", !.latex = latex, !.density = d]
           g == LruCache_Get(map, KeyOf(q))
       IN  /\ map' = g.map
           /\ reqs' = [reqs EXCEPT ![r] =
                        IF Found(g, KeyOf(q))
                        THEN [q EXCEPT !.pc = "done", !.order = FastOrder, !.hit = TRUE,
                                       !.resp = FastAnswer(TRUE, [success |-> TRUE, result |-> g.ret])]
                        ELSE [q EXCEPT !.pc = "attempt", !.attempt = 1, !.calls = @ + 1]]
    /\ UNCHANGED now
    /\ UNCHANGED serverFrame

\* server.js App.post('/renderFast'): the key, RenderCache.Get, the answer.
\* No validation: a missing latex gives a key no /render has stored.
SrvRenderFast(r, latex, d) ==
    /\ impl = "server"
    /\ reqs[r].pc = "idle"
    /\ LET q == [reqs[r] EXCEPT !.kind = "fast", !.latex = latex, !.density = d]
           g == LruCache_Get(map, KeyOf(q))
       IN  /\ map' = g.map
           /\ reqs' = [reqs EXCEPT ![r] =
                        [q EXCEPT !.pc = "done", !.order = FastOrder,
                                  !.hit = Found(g, KeyOf(q)),
                                  !.resp = FastAnswer(Found(g, KeyOf(q)),
                                                      [success |-> TRUE, result |-> g.ret])]]
    /\ UNCHANGED now
    /\ UNCHANGED serverFrame

\* part_000 App.post('/renderFast'): the validation, the key, Cache.get,
\* the answer.
P0RenderFast(r, latex, d) ==
    /\ impl = "part_000"
    /\ reqs[r].pc = "idle"
    /\ LET q == [reqs[r] EXCEPT !.kind = "fast", !.latex = latex, !.density = d]
           g == LruCache_get(map, KeyOf(q), now)
       IN  IF latex = ""
           THEN /\ reqs' = [reqs EXCEPT ![r] =
                             [q EXCEPT !.pc = "done", !.order = FastOrder,
                                       !.resp = Json(400, [error |-> "latex string required"])]]
                /\ map' = map
           ELSE /\ map' = g.map
                /\ reqs' = [reqs EXCEPT ![r] =
                             [q EXCEPT !.pc = "done", !.order = FastOrder,
                                       !.hit = Found(g, KeyOf(q)),
                                       !.resp = FastAnswer(Found(g, KeyOf(q)), g.ret)]]
    /\ UNCHANGED now
    /\ UNCHANGED serverFrame

FastNext ==
    \/ \E r \in FastRequests, latex \in Latexes, d \in RequestDensities : SrvRender(r, latex, d)
    \/ \E r \in FastRequests : SrvAttempt(r)
    \/ \E r \in FastRequests : SrvComplete(r)
    \/ \E r \in FastRequests, latex \in Latexes, d \in RequestDensities : SrvRenderFast(r, latex, d)
    \/ \E r \in FastRequests, latex \in Latexes, d \in RequestDensities : P0Render(r, latex, d)
    \/ \E r \in FastRequests : P0Attempt(r)
    \/ \E r \in FastRequests : P0Complete(r)
    \/ \E r \in FastRequests, latex \in Latexes, d \in RequestDensities : P0RenderFast(r, latex, d)
    \/ Tick

SpecFast == FastInit /\ [][FastNext]_vars

\* ------------------------------------------------------------------
\* Claims about /renderFast
\* ------------------------------------------------------------------

\* Request r is received by /renderFast in this step.
FastStep(r) == reqs[r].pc = "idle" /\ reqs'[r].kind = "fast"

\* The key of the request is resident and, in part_000, has not expired.
FastFinds(m, key, t) ==
    /\ MapHas(m, key)
    /\ impl = "part_000" => ~Expired(MapEntry(m, key), t)

\* The value of the answer of a hit: server.js spreads the cached value
\* into the result it sends, part_000 sends it as it is.
FastResult(resp) ==
    IF impl = "server" THEN resp.body.result.result ELSE resp.body.result

\* What the step of /renderFast for request r does.
FastEffect(r) ==
    LET q == reqs'[r]
        key == KeyOf(q)
        looked == impl = "server" \/ q.latex # ""
        fresh == looked /\ FastFinds(map, key, now)
    IN  /\ q.pc = "done"
        /\ q.calls = 0
        /\ q.invoked = 0
        /\ \A o \in FastRequests \ {r} : reqs'[o] = reqs[o]
        /\ MapKeys(map') \subseteq MapKeys(map)
        /\ looked =>
              IF fresh
              THEN /\ q.resp.status = 200
                   /\ q.resp.body.hit
                   /\ FastResult(q.resp) = MapEntry(map, key).value
              ELSE q.resp = Json(200, [hit |-> FALSE])
        /\ MapKeys(map') =
              IF looked /\ MapHas(map, key) /\ ~fresh
              THEN MapKeys(map) \ {key} ELSE MapKeys(map)
        /\ \A k \in MapKeys(map') : MapEntry(map', k) = MapEntry(map, k)
        /\ MapDelete(map', key) = MapDelete(map, key)

FastIsCacheOnly == \A r \in FastRequests : FastStep(r) => FastEffect(r)

====
